---- MODULE Spec2Model ----
(***************************************************************************)
(* A model of the geospatial aggregation engine of pop-squared:            *)
(*   - the raster access layer of src/lib/geo.ts (getImage, openImage,     *)
(*     readRastersExclusive),                                              *)
(*   - the query paths of src/lib/population.ts (computePopulation) and    *)
(*     src/lib/travel-time-grid.ts (extractPopulatedCells),                *)
(*   - the ring partition of src/lib/rings.ts and the per-pixel            *)
(*     accumulation loop of computePopulation.                             *)
(*                                                                         *)
(* Promises are modelled by their state ("pending", then settled) and the  *)
(* JavaScript job queue by one action per continuation: an await or a      *)
(* .then callback is a separate step that is enabled once the promise it   *)
(* waits for has settled.                                                  *)
(*                                                                         *)
(* Distances are integers in units of 0.1 km, so that MIN_DISTANCE_KM is   *)
(* one unit and a radius such as 1.5 km is representable.                  *)
(***************************************************************************)
EXTENDS Integers, Sequences, FiniteSets, TLC

\* ------------------------------------------------------------------ bounds

\* Number of readRastersExclusive calls submitted in one run.
MaxCalls == 4

\* Number of getImage calls made in one run.
MaxCallers == 4

\* Number of queries (computePopulation / extractPopulatedCells calls).
MaxQueries == 3

\* Largest radiusKm of the ring lookup, in units of 0.1 km (32 km: all three
\* step sizes of generateRingBoundaries occur).
MaxRadius == 320

\* Number of pixels in the window of an accumulation pass.
MaxPixels == 3

\* Number of cells in data.cells of a travel-time filter run.
MaxCells == 2

\* Number of cells passed to buildSuperCells.
MaxTileCells == 2

\* Number of times the originId prop of useTravelTimeData changes.
MaxSelections == 3

\* Origins the server lists, and calls of start() (retryErrors included).
MaxOrigins == 2
MaxStarts == 3

\* Width and height, in pixels, of the raster of the window computation.
MaxColumns == 3
MaxRows == 2

VARIABLES
    \* --- geo.ts: readRastersExclusive ---------------------------------
    readQueue,   \* the queue tail: 0 is the initial Promise.resolve(), c > 0
                 \* is the tail created by call c (result.then(noop, noop))
    nCalls,      \* number of readRastersExclusive calls made so far
    prev,        \* prev[c]: the value of readQueue that call c chained onto
    result,      \* result[c]: state of the promise returned by call c
    phys,        \* phys[c]: state of call c's image.readRasters
    tail,        \* tail[c]: state of the queue-tail promise created by call c
    err          \* err[c]: the call whose read raised the error that
                 \* result[c] rejected with (0: none)

readVars == <<readQueue, nCalls, prev, result, phys, tail, err>>

VARIABLES
    \* --- geo.ts: getImage ---------------------------------------------
    cachedImage,   \* 0 (null) or the handle the successful open produced
    imagePromise,  \* 0 (null) or the open whose promise is stored
    nOpens,        \* number of openImage() calls made so far
    openSt,        \* openSt[k]: state of the promise of the k-th openImage()
    gpc,           \* gpc[i]: where caller i of getImage is
    waitOn,        \* waitOn[i]: the open whose promise caller i awaits
    ret,           \* ret[i]: how the promise getImage returned to i settled
    retVal,        \* retVal[i]: the handle, or the open whose error it is
    reactions,     \* reactions[k]: callers registered on promise k, in order
    openEnv,       \* what the latest openImage() found: GEOTIFF_URL, the file
    openSource,    \* the source the latest openImage() loads from
    openMessage    \* the remedies named by the error of the latest openImage()

imgVars == <<cachedImage, imagePromise, nOpens, openSt, gpc, waitOn, ret,
             retVal, reactions, openEnv, openSource, openMessage>>

VARIABLES
    \* --- population.ts / travel-time-grid.ts: the query paths ----------
    modImage,    \* modImage[m]: the module-level cachedImage of module m
    modTiff,     \* modTiff[m]: the module-level cachedTiff of module m
    nTiffs,      \* number of fromFile / fromUrl calls made so far
    qpc,         \* qpc[q]: where query q is
    qmod,        \* qmod[q]: the module whose function query q runs
    qtiff,       \* qtiff[q]: the tiff that query q opened itself (0: none)
    qimg         \* qimg[q]: the image handle query q reads from

qryVars == <<modImage, modTiff, nTiffs, qpc, qmod, qtiff, qimg>>

VARIABLES
    \* --- population.ts: the ring lookup applied to one distance --------
    lkPhase,     \* "idle", then "done" once the lookup was applied
    lkRadius,    \* radiusKm of the query
    lkDist,      \* dist of the pixel
    lkBounds,    \* ringBounds = generateRingBoundaries(radiusKm)
    lkRing       \* ringIdx after the lookup

lkVars == <<lkPhase, lkRadius, lkDist, lkBounds, lkRing>>

VARIABLES
    \* --- population.ts: the accumulation pass of computePopulation -----
    acPhase,             \* "idle", "loop" (iterating the window), "done"
    acRadius,            \* radiusKm of the query
    acExponent,          \* exponent of the query
    ringBounds,          \* generateRingBoundaries(radiusKm)
    acCount,             \* pixels of the window iterated so far
    acPixel,             \* dist and pop of the pixel last iterated
    ringPop,             \* per-ring population; ring r is element r + 1
    ringInvSq,           \* per-ring sum of pop * weight
    ringArea,            \* per-ring sum of pixel areas
    totalPop,
    inverseSqSum,
    inverseSqWeightSum,
    pixelsProcessed,
    acResult             \* the PopulationResult returned

accVars == <<acPhase, acRadius, acExponent, ringBounds, acCount, acPixel,
             ringPop, ringInvSq, ringArea, totalPop, inverseSqSum,
             inverseSqWeightSum, pixelsProcessed, acResult>>

VARIABLES
    \* --- useTravelTimeData.ts: the useMemo that filters the cells --------
    ttPhase,             \* "idle", "loop" (iterating data.cells), "done"
    ttRerun,             \* the callback has run before this run
    ttData,              \* data.cells, as far as the loop has read them
    ttMode,              \* mode
    ttExponent,          \* exponent
    ttMaxTimeMin,        \* maxTimeMin
    ttIdx,               \* cells of data.cells iterated so far
    filteredCells,
    rawSum,
    weightSum,
    totalPopulation,
    ttResults            \* the ComputedResults returned

ttVars == <<ttPhase, ttRerun, ttData, ttMode, ttExponent, ttMaxTimeMin, ttIdx,
            filteredCells, rawSum, weightSum, totalPopulation, ttResults>>

VARIABLES
    \* --- rings.ts: one call of generateRingBoundaries -------------------
    gbPhase,             \* "idle", "loop" (in the while loop), "done" (returned)
    gbRadius,            \* radiusKm
    gbBoundaries,        \* boundaries
    gbCurrent            \* current

genVars == <<gbPhase, gbRadius, gbBoundaries, gbCurrent>>

VARIABLES
    \* --- population.ts: buildSuperCells ---------------------------------
    scPhase,             \* "idle", "built" (one call made), "rebuilt" (two)
    scCells,             \* cells of the first call
    scFeatures,          \* features of the collection the first call returned
    scPermCells,         \* cells of the second call: the same cells, reordered
    scPermFeatures       \* features the second call returned

scVars == <<scPhase, scCells, scFeatures, scPermCells, scPermFeatures>>

VARIABLES
    \* --- useTravelTimeData.ts: the hook's state and its fetches ---------
    originId,            \* the originId prop: "null" or an origin
    effectPending,       \* originId changed and the effect has not run yet
    hkData,              \* data: "null" or the origin whose OriginResult it is
    hkResults,           \* results: "null" or the origin whose cells they are of
    hkLoading,           \* loading
    hkError,             \* error: "null" or the origin whose fetch failed
    fetches,             \* per controller: the origin fetched and the state
    abortRef,            \* abortRef.current: a controller, 0 for null
    cleanup              \* controller the effect's cleanup aborts, 0 for none

hookVars == <<originId, effectPending, hkData, hkResults, hkLoading, hkError,
              fetches, abortRef, cleanup>>

VARIABLES
    \* --- population.ts: the pass over a synthetic square grid -----------
    gdPhase,        \* "idle", "loop", "done"
    gdCenterPop,    \* population of the centre cell
    gdOtherPop,     \* population of every other cell
    gdRadius,       \* radiusKm of the query, in 0.1 km
    gdRow,          \* row of the pixel loop
    gdCol,          \* col of the pixel loop
    gdBounds,       \* ringBounds
    gdRingPop,      \* ringPop
    gdRingInvSq,    \* ringInvSq
    gdRingArea,     \* ringArea
    gdTotalPop,     \* totalPop
    gdInvSqSum,     \* inverseSqSum
    gdWeightSum,    \* inverseSqWeightSum
    gdPixels,       \* pixelsProcessed
    gdResult        \* the PopulationResult returned, <<>> before the return

gridVars == <<gdPhase, gdCenterPop, gdOtherPop, gdRadius, gdRow, gdCol,
              gdBounds, gdRingPop, gdRingInvSq, gdRingArea, gdTotalPop,
              gdInvSqSum, gdWeightSum, gdPixels, gdResult>>

VARIABLES
    \* --- population.ts / travel-time-grid.ts: the pixel window ----------
    wnPhase,     \* "idle", "window", "read", "failed", "pass", "done"
    wnCaller,    \* "computePopulation" or "extractPopulatedCells"
    wnRadius,    \* radiusKm of the query, in 0.1 km
    wnBox,       \* [minLng, minLat, maxLng, maxLat], in half pixels
    wnWindow,    \* [col0, row0, col1, row1]
    wnResult     \* what the call returned for an empty window, <<>> before

winVars == <<wnPhase, wnCaller, wnRadius, wnBox, wnWindow, wnResult>>

VARIABLES
    \* --- usePopulation.ts: the hook's state and its fetches -------------
    upQuery,          \* [lat, lng, radiusKm, exponent]: "null" without a point
    upEffectPending,  \* fetchPopulation changed and the effect has not run yet
    upResult,         \* result: "null" or the query whose PopulationResult it is
    upLoading,        \* loading
    upError,          \* error: "null" or the query whose fetch failed
    upFetches,        \* per controller: the query fetched and the state
    upAbortRef        \* abortRef.current: a controller, 0 for null

popVars == <<upQuery, upEffectPending, upResult, upLoading, upError, upFetches,
             upAbortRef>>

VARIABLES
    \* --- useBatchCompute.ts --------------------------------------------
    bcState,      \* state: status, origins, current, completed, errors, total,
                  \* loadError (avgTimeMs, a timing figure, is left out)
    bcPauseRef,   \* pauseRef.current
    bcAbortRef,   \* abortRef.current: a controller, 0 for null
    bcControllers,\* number of AbortControllers created so far
    bcServer,     \* origins whose result file the server has
    bcMounted,    \* the dashboard's mount effect has called loadOrigins
    bcRuns        \* the calls of loadOrigins (mount) and start, in call order

batchVars == <<bcState, bcPauseRef, bcAbortRef, bcControllers, bcServer,
               bcMounted, bcRuns>>

vars == <<readVars, imgVars, qryVars, lkVars, accVars, ttVars, genVars, scVars, hookVars, gridVars, winVars, popVars, batchVars>>

Calls == 1..MaxCalls

Settled == {"resolved", "rejected"}

\* ---------------------------------------------- geo.ts: readRastersExclusive

\* let readQueue: Promise<unknown> = Promise.resolve();
ReadInit ==
    /\ readQueue = 0
    /\ nCalls = 0
    /\ prev = [c \in Calls |-> 0]
    /\ result = [c \in Calls |-> "unsubmitted"]
    /\ phys = [c \in Calls |-> "none"]
    /\ tail = [c \in 0..MaxCalls |-> IF c = 0 THEN "fulfilled" ELSE "pending"]
    /\ err = [c \in Calls |-> 0]

\* A bug: the queue tail is not advanced, every call chains onto the old tail.
NewTailStale(c) == readQueue

\* readQueue = result.then(() => {}, () => {}): the tail is now call c's.
NewTail(c) == c

\* A bug: only a fulfilment handler, so a rejection passes down the chain.
TailOutcomeNoSwallow(r) == IF r = "rejected" THEN "rejected" ELSE "fulfilled"

\* A bug: the tail settles only when the read succeeded.
TailOutcomeSuccessOnly(r) == IF r = "resolved" THEN "fulfilled" ELSE "pending"

\* result.then(() => {}, () => {}): both handlers return undefined, so the
\* tail is fulfilled whichever way result settled.
TailOutcome(r) == "fulfilled"

\* A bug: image.readRasters is not awaited, the callback returns at once.
ReadNotAwaited(c) == phys[c] # "none"

\* const rasterData = await image.readRasters({ window }): the callback goes
\* on only once the read has settled.
ReadAwaited(c) == phys[c] \in {"ok", "fail"}

\* The synchronous body of readRastersExclusive: chain the callback onto the
\* queue, replace the queue tail, return result.
ReadRastersExclusive ==
    /\ nCalls < MaxCalls
    /\ LET c == nCalls + 1 IN
        /\ nCalls' = c
        /\ prev' = [prev EXCEPT ![c] = readQueue]
        /\ result' = [result EXCEPT ![c] = "pending"]
        /\ readQueue' = NewTail(c)
    /\ UNCHANGED <<phys, tail, err>>
    /\ UNCHANGED <<imgVars, qryVars, lkVars, accVars, ttVars, genVars, scVars, hookVars, gridVars, winVars, popVars, batchVars>>

\* The job readQueue.then(async () => ...) of call c: runs once the tail it
\* was chained onto has settled. On a fulfilled tail the callback runs and
\* starts image.readRasters; on a rejected tail the callback is skipped and
\* result rejects with the tail's reason.
RunCallback(c) ==
    /\ result[c] = "pending"
    /\ phys[c] = "none"
    /\ tail[prev[c]] # "pending"
    /\ IF tail[prev[c]] = "fulfilled"
          THEN /\ phys' = [phys EXCEPT ![c] = "inflight"]
               /\ UNCHANGED <<result, err>>
          ELSE /\ result' = [result EXCEPT ![c] = "rejected"]
               /\ err' = [err EXCEPT ![c] = err[prev[c]]]
               /\ UNCHANGED phys
    /\ UNCHANGED <<readQueue, nCalls, prev, tail>>
    /\ UNCHANGED <<imgVars, qryVars, lkVars, accVars, ttVars, genVars, scVars, hookVars, gridVars, winVars, popVars, batchVars>>

\* The underlying image.readRasters of call c settles, with either outcome.
ReadSettles(c) ==
    /\ phys[c] = "inflight"
    /\ \E o \in {"ok", "fail"} : phys' = [phys EXCEPT ![c] = o]
    /\ UNCHANGED <<readQueue, nCalls, prev, result, tail, err>>
    /\ UNCHANGED <<imgVars, qryVars, lkVars, accVars, ttVars, genVars, scVars, hookVars, gridVars, winVars, popVars, batchVars>>

\* The callback of call c resumes after its await and returns rasterData[0]
\* or throws: result settles.
CallbackReturns(c) ==
    /\ result[c] = "pending"
    /\ ReadAwaited(c)
    /\ result' = [result EXCEPT ![c] =
                    IF phys[c] = "fail" THEN "rejected" ELSE "resolved"]
    /\ err' = [err EXCEPT ![c] = IF phys[c] = "fail" THEN c ELSE 0]
    /\ UNCHANGED <<readQueue, nCalls, prev, phys, tail>>
    /\ UNCHANGED <<imgVars, qryVars, lkVars, accVars, ttVars, genVars, scVars, hookVars, gridVars, winVars, popVars, batchVars>>

\* The job result.then(() => {}, () => {}) of call c: settles the tail.
TailSettles(c) ==
    /\ result[c] \in Settled
    /\ tail[c] = "pending"
    /\ tail' = [tail EXCEPT ![c] = TailOutcome(result[c])]
    /\ UNCHANGED <<readQueue, nCalls, prev, result, phys, err>>
    /\ UNCHANGED <<imgVars, qryVars, lkVars, accVars, ttVars, genVars, scVars, hookVars, gridVars, winVars, popVars, batchVars>>

\* ---------------------------------------------------------- geo.ts: getImage

Callers == 1..MaxCallers

\* Every open produces a handle of its own: the handle of open k is k.
Opens == 1..MaxCallers

\* let cachedImage = null; let imagePromise = null;
ImageInit ==
    /\ cachedImage = 0
    /\ imagePromise = 0
    /\ nOpens = 0
    /\ openSt = [k \in Opens |-> "unstarted"]
    /\ gpc = [i \in Callers |-> "idle"]
    /\ waitOn = [i \in Callers |-> 0]
    /\ ret = [i \in Callers |-> "none"]
    /\ retVal = [i \in Callers |-> 0]
    /\ reactions = [k \in Opens |-> <<>>]
    /\ openEnv = [url |-> "unset", file |-> FALSE]
    /\ openSource = "none"
    /\ openMessage = {}

\* A bug: no deduplication, a call never joins the open in flight.
OpenStoredIgnored == FALSE

\* if (imagePromise) return imagePromise;
OpenStored == imagePromise # 0

\* A bug: the catch block leaves the rejected promise in place.
PromiseAfterFailureKept == imagePromise

\* imagePromise = null; // allow retry on failure
PromiseAfterFailure == 0

\* if (cachedImage) return cachedImage;
GetImageCached(i) ==
    /\ gpc[i] = "idle"
    /\ cachedImage # 0
    /\ gpc' = [gpc EXCEPT ![i] = "done"]
    /\ ret' = [ret EXCEPT ![i] = "ok"]
    /\ retVal' = [retVal EXCEPT ![i] = cachedImage]
    /\ UNCHANGED <<cachedImage, imagePromise, nOpens, openSt, waitOn, reactions>>
    /\ UNCHANGED <<openEnv, openSource, openMessage>>
    /\ UNCHANGED <<readVars, qryVars, lkVars, accVars, ttVars, genVars, scVars, hookVars, gridVars, winVars, popVars, batchVars>>

\* if (imagePromise) return imagePromise: the promise getImage returned to i
\* follows the stored one.
GetImageJoin(i) ==
    /\ gpc[i] = "idle"
    /\ cachedImage = 0
    /\ OpenStored
    /\ gpc' = [gpc EXCEPT ![i] = "joined"]
    /\ waitOn' = [waitOn EXCEPT ![i] = imagePromise]
    /\ reactions' = [reactions EXCEPT ![imagePromise] = Append(@, i)]
    /\ UNCHANGED <<cachedImage, imagePromise, nOpens, openSt, ret, retVal>>
    /\ UNCHANGED <<openEnv, openSource, openMessage>>
    /\ UNCHANGED <<readVars, qryVars, lkVars, accVars, ttVars, genVars, scVars, hookVars, gridVars, winVars, popVars, batchVars>>

\* What an openImage() call can find: GEOTIFF_URL unset, set to a URL that
\* does not serve the raster ("bad") or to one that does ("good"), and the
\* file data/<TIFF_FILENAME> absent or present.
Environments == [url : {"unset", "bad", "good"}, file : BOOLEAN]

\* A bug: the local file is preferred when it is there.
OpenSourceFileFirst(env) ==
    IF env.file THEN "file" ELSE IF env.url # "unset" THEN "url" ELSE "file"

\* if (remoteUrl) fromUrl(remoteUrl) else fromFile(tifPath)
OpenSource(env) == IF env.url # "unset" THEN "url" ELSE "file"

\* fromUrl / fromFile can deliver a tiff.
SourceUp(source, env) ==
    \/ source = "url" /\ env.url = "good"
    \/ source = "file" /\ env.file

\* The remedies the thrown Error names: "Check that GEOTIFF_URL is correct",
\* or 'Run "bash scripts/download-data.sh" ..., or set GEOTIFF_URL'.
OpenErrorMessage(env) ==
    IF env.url # "unset" THEN {"check GEOTIFF_URL"}
                         ELSE {"download", "set GEOTIFF_URL"}

\* imagePromise = openImage(); then the caller suspends at await imagePromise.
\* openImage() reads process.env.GEOTIFF_URL and starts fromUrl or fromFile.
GetImageOpen(i) ==
    /\ gpc[i] = "idle"
    /\ cachedImage = 0
    /\ ~OpenStored
    /\ LET k == nOpens + 1 IN
        /\ nOpens' = k
        /\ openSt' = [openSt EXCEPT ![k] = "pending"]
        /\ imagePromise' = k
        /\ waitOn' = [waitOn EXCEPT ![i] = k]
        /\ reactions' = [reactions EXCEPT ![k] = Append(@, i)]
    /\ \E env \in Environments :
          /\ openEnv' = env
          /\ openSource' = OpenSource(env)
    /\ openMessage' = {}
    /\ gpc' = [gpc EXCEPT ![i] = "opener"]
    /\ UNCHANGED <<cachedImage, ret, retVal>>
    /\ UNCHANGED <<readVars, qryVars, lkVars, accVars, ttVars, genVars, scVars, hookVars, gridVars, winVars, popVars, batchVars>>

\* The promise of the k-th openImage() settles: rejected when the source it
\* loads from delivers no tiff, and with either outcome when it does
\* (tiff.getImage() can still throw). The catch block builds the message.
OpenSettles(k) ==
    /\ openSt[k] = "pending"
    /\ \E o \in (IF SourceUp(openSource, openEnv)
                    THEN {"fulfilled", "rejected"} ELSE {"rejected"}) :
          /\ openSt' = [openSt EXCEPT ![k] = o]
          /\ openMessage' = IF o = "rejected" THEN OpenErrorMessage(openEnv)
                                              ELSE {}
    /\ UNCHANGED <<cachedImage, imagePromise, nOpens, gpc, waitOn, ret, retVal,
                   reactions, openEnv, openSource>>
    /\ UNCHANGED <<readVars, qryVars, lkVars, accVars, ttVars, genVars, scVars, hookVars, gridVars, winVars, popVars, batchVars>>

\* The reactions of a settled promise run in the order they were registered.
NextReaction(i) ==
    /\ waitOn[i] # 0
    /\ openSt[waitOn[i]] \in {"fulfilled", "rejected"}
    /\ reactions[waitOn[i]] # <<>>
    /\ Head(reactions[waitOn[i]]) = i

\* The caller that started the open resumes after await imagePromise:
\* cachedImage = <handle>; return cachedImage, or the catch block:
\* imagePromise = null; throw err.
ResumeOpener(i) ==
    /\ gpc[i] = "opener"
    /\ NextReaction(i)
    /\ LET k == waitOn[i] IN
        /\ reactions' = [reactions EXCEPT ![k] = Tail(@)]
        /\ retVal' = [retVal EXCEPT ![i] = k]
        /\ IF openSt[k] = "fulfilled"
              THEN /\ cachedImage' = k
                   /\ ret' = [ret EXCEPT ![i] = "ok"]
                   /\ UNCHANGED imagePromise
              ELSE /\ imagePromise' = PromiseAfterFailure
                   /\ ret' = [ret EXCEPT ![i] = "err"]
                   /\ UNCHANGED cachedImage
    /\ gpc' = [gpc EXCEPT ![i] = "done"]
    /\ UNCHANGED <<nOpens, openSt, waitOn, openEnv, openSource, openMessage>>
    /\ UNCHANGED <<readVars, qryVars, lkVars, accVars, ttVars, genVars, scVars, hookVars, gridVars, winVars, popVars, batchVars>>

\* The promise returned to a caller that joined settles as the stored one did.
ResumeJoined(i) ==
    /\ gpc[i] = "joined"
    /\ NextReaction(i)
    /\ LET k == waitOn[i] IN
        /\ reactions' = [reactions EXCEPT ![k] = Tail(@)]
        /\ retVal' = [retVal EXCEPT ![i] = k]
        /\ ret' = [ret EXCEPT ![i] =
                     IF openSt[k] = "fulfilled" THEN "ok" ELSE "err"]
    /\ gpc' = [gpc EXCEPT ![i] = "done"]
    /\ UNCHANGED <<cachedImage, imagePromise, nOpens, openSt, waitOn>>
    /\ UNCHANGED <<openEnv, openSource, openMessage>>
    /\ UNCHANGED <<readVars, qryVars, lkVars, accVars, ttVars, genVars, scVars, hookVars, gridVars, winVars, popVars, batchVars>>

NextImage ==
    \/ \E i \in Callers : GetImageCached(i)
    \/ \E i \in Callers : GetImageJoin(i)
    \/ \E i \in Callers : GetImageOpen(i)
    \/ \E k \in Opens : OpenSettles(k)
    \/ \E i \in Callers : ResumeOpener(i)
    \/ \E i \in Callers : ResumeJoined(i)

\* ------------------- population.ts and travel-time-grid.ts: the query paths

Queries == 1..MaxQueries

\* computePopulation lives in population.ts, extractPopulatedCells in
\* travel-time-grid.ts; each module has its own cachedTiff and cachedImage.
Modules == {"population", "grid"}

\* The tiff of the k-th fromFile / fromUrl call is k, and so is its image.
Tiffs == 1..MaxQueries

\* let cachedTiff = null; let cachedImage = null; (in both modules)
QueryInit ==
    /\ modImage = [m \in Modules |-> 0]
    /\ modTiff = [m \in Modules |-> 0]
    /\ nTiffs = 0
    /\ qpc = [q \in Queries |-> "idle"]
    /\ qmod = [q \in Queries |-> "population"]
    /\ qtiff = [q \in Queries |-> 0]
    /\ qimg = [q \in Queries |-> 0]

\* computePopulation(query) or extractPopulatedCells(...) is called and runs
\* to the first await of the module's getImage:
\*   if (cachedImage) return cachedImage;
\*   cachedTiff = await fromFile(tifPath);      (or fromUrl(remoteUrl))
QueryCall(q, m) ==
    /\ qpc[q] = "idle"
    /\ qmod' = [qmod EXCEPT ![q] = m]
    /\ IF modImage[m] # 0
          THEN /\ qimg' = [qimg EXCEPT ![q] = modImage[m]]
               /\ qpc' = [qpc EXCEPT ![q] = "haveImage"]
               /\ UNCHANGED <<nTiffs, qtiff>>
          ELSE /\ nTiffs' = nTiffs + 1
               /\ qtiff' = [qtiff EXCEPT ![q] = nTiffs + 1]
               /\ qpc' = [qpc EXCEPT ![q] = "fromFile"]
               /\ UNCHANGED qimg
    /\ UNCHANGED <<modImage, modTiff>>
    /\ UNCHANGED <<readVars, imgVars, lkVars, accVars, ttVars, genVars, scVars, hookVars, gridVars, winVars, popVars, batchVars>>

\* fromFile / fromUrl settled and getImage resumes:
\*   cachedTiff = <tiff>; then cachedTiff.getImage() is called and awaited.
\* A rejection is not caught: it fails the query.
FromFileSettles(q) ==
    /\ qpc[q] = "fromFile"
    /\ \/ /\ modTiff' = [modTiff EXCEPT ![qmod[q]] = qtiff[q]]
          /\ qpc' = [qpc EXCEPT ![q] = "tiffGetImage"]
       \/ /\ qpc' = [qpc EXCEPT ![q] = "failed"]
          /\ UNCHANGED modTiff
    /\ UNCHANGED <<modImage, nTiffs, qmod, qtiff, qimg>>
    /\ UNCHANGED <<readVars, imgVars, lkVars, accVars, ttVars, genVars, scVars, hookVars, gridVars, winVars, popVars, batchVars>>

\* cachedTiff.getImage() settled and getImage resumes:
\*   cachedImage = <image>; return cachedImage;
TiffGetImageSettles(q) ==
    /\ qpc[q] = "tiffGetImage"
    /\ \/ /\ modImage' = [modImage EXCEPT ![qmod[q]] = qtiff[q]]
          /\ qimg' = [qimg EXCEPT ![q] = qtiff[q]]
          /\ qpc' = [qpc EXCEPT ![q] = "haveImage"]
       \/ /\ qpc' = [qpc EXCEPT ![q] = "failed"]
          /\ UNCHANGED <<modImage, qimg>>
    /\ UNCHANGED <<modTiff, nTiffs, qmod, qtiff>>
    /\ UNCHANGED <<readVars, imgVars, lkVars, accVars, ttVars, genVars, scVars, hookVars, gridVars, winVars, popVars, batchVars>>

\* The query resumes after await getImage(), computes its pixel window and
\* calls image.readRasters({ window }) on the handle it was given.
QueryStartsRead(q) ==
    /\ qpc[q] = "haveImage"
    /\ qpc' = [qpc EXCEPT ![q] = "reading"]
    /\ UNCHANGED <<modImage, modTiff, nTiffs, qmod, qtiff, qimg>>
    /\ UNCHANGED <<readVars, imgVars, lkVars, accVars, ttVars, genVars, scVars, hookVars, gridVars, winVars, popVars, batchVars>>

\* image.readRasters settled and the query resumes: it runs its synchronous
\* pass over the buffer and returns, or the rejection fails the query.
QueryReadSettles(q) ==
    /\ qpc[q] = "reading"
    /\ \E o \in {"done", "failed"} : qpc' = [qpc EXCEPT ![q] = o]
    /\ UNCHANGED <<modImage, modTiff, nTiffs, qmod, qtiff, qimg>>
    /\ UNCHANGED <<readVars, imgVars, lkVars, accVars, ttVars, genVars, scVars, hookVars, gridVars, winVars, popVars, batchVars>>

NextQuery ==
    \/ \E q \in Queries : \E m \in Modules : QueryCall(q, m)
    \/ \E q \in Queries : FromFileSettles(q)
    \/ \E q \in Queries : TiffGetImageSettles(q)
    \/ \E q \in Queries : QueryStartsRead(q)
    \/ \E q \in Queries : QueryReadSettles(q)

\* ------------------------------------------ rings.ts: generateRingBoundaries

Min(a, b) == IF a < b THEN a ELSE b

Max(a, b) == IF a > b THEN a ELSE b

\* step = 1 below 10 km, 2 below 25 km, 5 from there on (in units of 0.1 km).
\* A bug: the largest step starts one boundary early, at 24 km.
RingStepEarlyFive(current) ==
    IF current < 100 THEN 10 ELSE IF current < 240 THEN 20 ELSE 50

RingStep(current) ==
    IF current < 100 THEN 10 ELSE IF current < 250 THEN 20 ELSE 50

\* current + step, without Math.min.
NextBoundaryUnclamped(current, radiusKm) == current + RingStep(current)

\* Math.min(current + step, radiusKm)
NextBoundary(current, radiusKm) == Min(current + RingStep(current), radiusKm)

RECURSIVE RingLoop(_, _, _)
\* while (current < radiusKm) { current = Math.min(current + step, radiusKm);
\*                              boundaries.push(current); }
RingLoop(boundaries, current, radiusKm) ==
    IF current < radiusKm
       THEN LET next == NextBoundary(current, radiusKm)
            IN  RingLoop(Append(boundaries, next), next, radiusKm)
       ELSE boundaries

\* A bug: radiusKm is pushed whatever the last boundary is.
FinalBoundariesAlways(boundaries, radiusKm) == Append(boundaries, radiusKm)

\* if (boundaries[boundaries.length - 1] !== radiusKm) boundaries.push(radiusKm)
FinalBoundaries(boundaries, radiusKm) ==
    IF boundaries[Len(boundaries)] # radiusKm
       THEN Append(boundaries, radiusKm)
       ELSE boundaries

GenerateRingBoundaries(radiusKm) ==
    FinalBoundaries(RingLoop(<<0>>, 0, radiusKm), radiusKm)

\* --------------------------- rings.ts: generateRingBoundaries step by step

GenInit ==
    /\ gbPhase = "idle"
    /\ gbRadius = 0
    /\ gbBoundaries = <<>>
    /\ gbCurrent = 0

\* generateRingBoundaries(radiusKm) is called: boundaries = [0], current = 0.
GenStart ==
    /\ gbPhase = "idle"
    /\ \E radiusKm \in 1..MaxRadius : gbRadius' = radiusKm
    /\ gbPhase' = "loop"
    /\ gbBoundaries' = <<0>>
    /\ gbCurrent' = 0
    /\ UNCHANGED <<readVars, imgVars, qryVars, lkVars, accVars, ttVars, scVars, hookVars, gridVars, winVars, popVars, batchVars>>

\* One iteration of while (current < radiusKm).
GenStep ==
    /\ gbPhase = "loop"
    /\ gbCurrent < gbRadius
    /\ gbCurrent' = NextBoundary(gbCurrent, gbRadius)
    /\ gbBoundaries' = Append(gbBoundaries, gbCurrent')
    /\ UNCHANGED <<gbPhase, gbRadius>>
    /\ UNCHANGED <<readVars, imgVars, qryVars, lkVars, accVars, ttVars, scVars, hookVars, gridVars, winVars, popVars, batchVars>>

\* The loop condition is false: the final test on the last boundary, and the
\* return.
GenReturn ==
    /\ gbPhase = "loop"
    /\ ~(gbCurrent < gbRadius)
    /\ gbBoundaries' = FinalBoundaries(gbBoundaries, gbRadius)
    /\ gbPhase' = "done"
    /\ UNCHANGED <<gbRadius, gbCurrent>>
    /\ UNCHANGED <<readVars, imgVars, qryVars, lkVars, accVars, ttVars, scVars, hookVars, gridVars, winVars, popVars, batchVars>>

NextGen ==
    \/ GenStart
    \/ GenStep
    \/ GenReturn

\* ------------------------------------- population.ts: the ring of one pixel

\* ringBounds[r] of the code, whose arrays start at 0.
Bound(bounds, r) == bounds[r + 1]

\* A bug: the upper bound of a ring is taken as inclusive.
RingMatchesInclusive(dist, bounds, r) ==
    dist >= Bound(bounds, r) /\ dist <= Bound(bounds, r + 1)

\* if (dist >= ringBounds[r] && dist < ringBounds[r + 1])
RingMatches(dist, bounds, r) ==
    dist >= Bound(bounds, r) /\ dist < Bound(bounds, r + 1)

RECURSIVE ScanRings(_, _, _, _)
\* for (let r = 0; r < ringCount; r++) { if (...) { ringIdx = r; break; } }
ScanRings(dist, bounds, ringCount, r) ==
    IF r >= ringCount THEN -1
    ELSE IF RingMatches(dist, bounds, r) THEN r
    ELSE ScanRings(dist, bounds, ringCount, r + 1)

\* A bug: no branch for the pixel exactly at the outer boundary.
FindRingNoEdge(dist, bounds, radiusKm) ==
    ScanRings(dist, bounds, Len(bounds) - 1, 0)

\* The ring lookup of computePopulation, with its edge case:
\*   if (ringIdx === -1 && dist <= radiusKm) ringIdx = ringCount - 1;
FindRing(dist, bounds, radiusKm) ==
    LET ringCount == Len(bounds) - 1
        ringIdx == ScanRings(dist, bounds, ringCount, 0)
    IN  IF ringIdx = -1 /\ dist <= radiusKm THEN ringCount - 1 ELSE ringIdx

LookupInit ==
    /\ lkPhase = "idle"
    /\ lkRadius = 0
    /\ lkDist = 0
    /\ lkBounds = <<>>
    /\ lkRing = -1

\* The lookup applied to one pixel that passed if (dist > radiusKm) continue,
\* for one radiusKm > 0.
RingLookup ==
    /\ lkPhase = "idle"
    /\ \E radiusKm \in 1..MaxRadius : \E dist \in 0..radiusKm :
          /\ lkRadius' = radiusKm
          /\ lkDist' = dist
          /\ lkBounds' = GenerateRingBoundaries(radiusKm)
          /\ lkRing' = FindRing(dist, GenerateRingBoundaries(radiusKm), radiusKm)
    /\ lkPhase' = "done"
    /\ UNCHANGED <<readVars, imgVars, qryVars, accVars, ttVars, genVars, scVars, hookVars, gridVars, winVars, popVars, batchVars>>

NextLookup == RingLookup

\* ------------------------- population.ts: the pass of computePopulation

\* const MIN_DISTANCE_KM = 0.1, in units of 0.1 km.
MIN_DISTANCE_KM == 1

\* Weights are exact integers in units of 1/36 km^-2: 1 / (0.1 km)^2 is 3600.
WeightScale == 60 * 60

\* radiusKm of the queries of the pass: 1 km, 1.5 km and 2 km.
RadiusSamples == {10, 15, 20}

\* exponent of a query: the route and the sliders accept 0.1 to 3, 2 being the
\* default.
ExponentSamples == {1, 2}

\* dist of a pixel, as haversineDistance returns it: at the centre, inside a
\* ring, exactly on a ring boundary, exactly at radiusKm, beyond radiusKm.
\* WeightScale is a multiple of the square of every non-zero sample.
DistSamples == {0, 5, 10, 15, 20, 30}

\* data[idx]: a population count, a negative nodata value or NaN.
PopSamples ==
    {[nan |-> FALSE, v |-> -1], [nan |-> TRUE, v |-> 0],
     [nan |-> FALSE, v |-> 0], [nan |-> FALSE, v |-> 1], [nan |-> FALSE, v |-> 2]}

\* areaKm2 of a pixel, which depends on its latitude, in units of 0.1 km^2.
AreaSamples == {4, 8}

\* if (pop < 0 || isNaN(pop)) continue;   (NaN < 0 is false)
IsNodata(pop) == (~pop.nan /\ pop.v < 0) \/ pop.nan

\* const r = Math.max(dist, MIN_DISTANCE_KM); const weight = 1 / (r * r);
Weight(dist) ==
    LET r == Max(dist, MIN_DISTANCE_KM) IN WeightScale \div (r * r)

RECURSIVE Pow(_, _)
Pow(b, e) == IF e = 0 THEN 1 ELSE b * Pow(b, e - 1)

\* Math.round(n / d) for n >= 0 and d > 0: halves round up.
RoundDiv(n, d) == (2 * n + d) \div (2 * d)

RECURSIVE SeqSum(_)
SeqSum(sq) == IF sq = <<>> THEN 0 ELSE Head(sq) + SeqSum(Tail(sq))

Zeros(n) == [r \in 1..n |-> 0]

AccumInit ==
    /\ acPhase = "idle"
    /\ acRadius = 0
    /\ acExponent = 2
    /\ ringBounds = <<>>
    /\ acCount = 0
    /\ acPixel = <<>>
    /\ ringPop = <<>>
    /\ ringInvSq = <<>>
    /\ ringArea = <<>>
    /\ totalPop = 0
    /\ inverseSqSum = 0
    /\ inverseSqWeightSum = 0
    /\ pixelsProcessed = 0
    /\ acResult = <<>>

\* const ringPop = new Float64Array(ringCount); ... let pixelsProcessed = 0;
Allocate(ringCount) ==
    [ringPop |-> Zeros(ringCount), ringInvSq |-> Zeros(ringCount),
     ringArea |-> Zeros(ringCount), totalPop |-> 0, inverseSqSum |-> 0,
     inverseSqWeightSum |-> 0, pixelsProcessed |-> 0]

\* A call of computePopulation (the first, or one made after an earlier call
\* returned), after its window was read: generate the ring boundaries and
\* initialise the accumulators of this call.
ComputeStart ==
    /\ acPhase \in {"idle", "done"}
    /\ \E radiusKm \in RadiusSamples : \E exponent \in ExponentSamples :
          LET bounds == GenerateRingBoundaries(radiusKm)
              fresh == Allocate(Len(bounds) - 1)
          IN  /\ acRadius' = radiusKm
              /\ acExponent' = exponent
              /\ ringBounds' = bounds
              /\ ringPop' = fresh.ringPop
              /\ ringInvSq' = fresh.ringInvSq
              /\ ringArea' = fresh.ringArea
              /\ totalPop' = fresh.totalPop
              /\ inverseSqSum' = fresh.inverseSqSum
              /\ inverseSqWeightSum' = fresh.inverseSqWeightSum
              /\ pixelsProcessed' = fresh.pixelsProcessed
    /\ acPhase' = "loop"
    /\ acCount' = 0
    /\ acPixel' = <<>>
    /\ acResult' = <<>>
    /\ UNCHANGED <<readVars, imgVars, qryVars, lkVars, ttVars, genVars, scVars, hookVars, gridVars, winVars, popVars, batchVars>>

\* pop of a pixel beyond radiusKm: data[idx] is not read for it.
NotRead == [nan |-> TRUE, v |-> 0]

\* One iteration of the pixel loop, for a pixel at distance dist holding pop.
ProcessPixel ==
    /\ acPhase = "loop"
    /\ acCount < MaxPixels
    /\ acCount' = acCount + 1
    /\ \E dist \in DistSamples :
          IF dist > acRadius
             THEN /\ acPixel' = [dist |-> dist, pop |-> NotRead]
                  /\ UNCHANGED <<ringPop, ringInvSq, ringArea, totalPop,
                                 inverseSqSum, inverseSqWeightSum, pixelsProcessed>>
             ELSE \E pop \in PopSamples :
                  /\ acPixel' = [dist |-> dist, pop |-> pop]
                  /\ IF IsNodata(pop)
                        THEN UNCHANGED <<ringPop, ringInvSq, ringArea, totalPop,
                                         inverseSqSum, inverseSqWeightSum,
                                         pixelsProcessed>>
                        ELSE LET ringIdx == FindRing(dist, ringBounds, acRadius)
                                 weight == Weight(dist)
                             IN  /\ pixelsProcessed' = pixelsProcessed + 1
                                 /\ totalPop' = totalPop + pop.v
                                 /\ IF ringIdx >= 0
                                       THEN /\ ringPop' = [ringPop EXCEPT
                                                              ![ringIdx + 1] = @ + pop.v]
                                            /\ ringInvSq' = [ringInvSq EXCEPT
                                                               ![ringIdx + 1] = @ + pop.v * weight]
                                            /\ inverseSqSum' = inverseSqSum + pop.v * weight
                                            /\ inverseSqWeightSum' = inverseSqWeightSum + weight
                                            /\ \E areaKm2 \in AreaSamples :
                                                  ringArea' = [ringArea EXCEPT
                                                                  ![ringIdx + 1] = @ + areaKm2]
                                       ELSE UNCHANGED <<ringPop, ringInvSq, ringArea,
                                                        inverseSqSum, inverseSqWeightSum>>
    /\ UNCHANGED <<acPhase, acRadius, acExponent, ringBounds, acResult>>
    /\ UNCHANGED <<readVars, imgVars, qryVars, lkVars, ttVars, genVars, scVars, hookVars, gridVars, winVars, popVars, batchVars>>

\* One RingResult: area = ringArea[r] || 1 (1 km^2 is 10 units); population
\* and density rounded to integers, inverseSqContribution to hundredths,
\* areaSqKm to tenths.
RingResult(r) ==
    LET area == IF ringArea[r] = 0 THEN 10 ELSE ringArea[r]
    IN  [innerKm |-> ringBounds[r],
         outerKm |-> ringBounds[r + 1],
         population |-> ringPop[r],
         inverseSqContribution |-> RoundDiv(100 * ringInvSq[r], WeightScale \div 100),
         areaSqKm |-> area,
         density |-> RoundDiv(10 * ringPop[r], area)]

\* inverseSqWeightSum > 0 ? Math.round((inverseSqSum / inverseSqWeightSum) * 100) / 100 : 0
\* without the test: 0 / 0 is NaN, written -1 here.
NormalizedUnguarded(sum, mass) ==
    IF mass = 0 THEN 0 - 1 ELSE RoundDiv(100 * sum, mass)

\* inverseSqWeightSum > 0 ? Math.round((inverseSqSum / inverseSqWeightSum) * 100) / 100 : 0
Normalized(sum, mass) ==
    IF mass > 0 THEN RoundDiv(100 * sum, mass) ELSE 0

\* The window is exhausted: build the ring results and return.
ComputeFinish ==
    /\ acPhase = "loop"
    /\ acPhase' = "done"
    /\ acResult' =
          [totalPopulation |-> totalPop,
           inverseSqSum |-> RoundDiv(100 * inverseSqSum, WeightScale \div 100),
           inverseSqNormalized |-> Normalized(inverseSqSum, inverseSqWeightSum),
           rings |-> [r \in 1..(Len(ringBounds) - 1) |-> RingResult(r)],
           pixelsProcessed |-> pixelsProcessed,
           radiusKm |-> acRadius]
    /\ UNCHANGED <<acRadius, acExponent, ringBounds, acCount, acPixel, ringPop,
                   ringInvSq, ringArea, totalPop, inverseSqSum,
                   inverseSqWeightSum, pixelsProcessed>>
    /\ UNCHANGED <<readVars, imgVars, qryVars, lkVars, ttVars, genVars, scVars, hookVars, gridVars, winVars, popVars, batchVars>>

NextAccum ==
    \/ ComputeStart
    \/ ProcessPixel
    \/ ComputeFinish

\* ----------- population.ts: the pass of computePopulation, on a square grid

\* width and height of the synthetic raster: 5 x 5 pixels of 1 km, the query
\* point at the centre of the centre pixel, so that the window of a query of
\* up to 2 km is the whole raster.
GridSize == 5

GridCenter == GridSize \div 2

\* Pixel area of the synthetic raster: 1 km^2, in units of 0.1 km^2.
GridPixelArea == 10

\* radiusKm of the queries on the grid: 1 km and 2 km.
GridRadiusSamples == {10, 20}

\* data[] of the grid: the centre cell, and all the other cells.
GridCenterPops == {50, 100}
GridOtherPops == {0, 1}

\* The square of dist for the pixel at (row, col), in units of (0.1 km)^2:
\* dist itself is irrational for the diagonal pixels, so the pass on the grid
\* compares and weighs squares.
DistSquared(row, col) ==
    100 * ((row - GridCenter) * (row - GridCenter)
           + (col - GridCenter) * (col - GridCenter))

\* const r = Math.max(dist, MIN_DISTANCE_KM); const weight = 1 / (r * r);
WeightOfSquare(d2) ==
    WeightScale \div Max(d2, MIN_DISTANCE_KM * MIN_DISTANCE_KM)

\* A bug: only populated pixels count in the weight mass.
MassAddedIfPopulated(pop, weight) == IF pop > 0 THEN weight ELSE 0

\* inverseSqWeightSum += weight;
MassAdded(pop, weight) == weight

RECURSIVE ScanRingsSquared(_, _, _, _)
\* for (let r = 0; r < ringCount; r++)
\*   if (dist >= ringBounds[r] && dist < ringBounds[r + 1]) { ringIdx = r; break; }
ScanRingsSquared(d2, bounds, ringCount, r) ==
    IF r >= ringCount THEN -1
    ELSE IF /\ d2 >= Bound(bounds, r) * Bound(bounds, r)
            /\ d2 < Bound(bounds, r + 1) * Bound(bounds, r + 1) THEN r
    ELSE ScanRingsSquared(d2, bounds, ringCount, r + 1)

\* if (ringIdx === -1 && dist <= radiusKm) ringIdx = ringCount - 1;
FindRingSquared(d2, bounds, radiusKm) ==
    LET ringCount == Len(bounds) - 1
        ringIdx == ScanRingsSquared(d2, bounds, ringCount, 0)
    IN  IF ringIdx = -1 /\ d2 <= radiusKm * radiusKm THEN ringCount - 1
                                                       ELSE ringIdx

GridInit ==
    /\ gdPhase = "idle"
    /\ gdCenterPop = 0
    /\ gdOtherPop = 0
    /\ gdRadius = 0
    /\ gdRow = 0
    /\ gdCol = 0
    /\ gdBounds = <<>>
    /\ gdRingPop = <<>>
    /\ gdRingInvSq = <<>>
    /\ gdRingArea = <<>>
    /\ gdTotalPop = 0
    /\ gdInvSqSum = 0
    /\ gdWeightSum = 0
    /\ gdPixels = 0
    /\ gdResult = <<>>

\* computePopulation is called on the grid: the ring boundaries and the
\* accumulators of the call; the pixel loop starts at row0 = 0, col0 = 0.
GridStart ==
    /\ gdPhase = "idle"
    /\ \E c \in GridCenterPops : \E o \in GridOtherPops :
          /\ gdCenterPop' = c
          /\ gdOtherPop' = o
    /\ \E radiusKm \in GridRadiusSamples :
          LET bounds == GenerateRingBoundaries(radiusKm)
              fresh == Allocate(Len(bounds) - 1)
          IN  /\ gdRadius' = radiusKm
              /\ gdBounds' = bounds
              /\ gdRingPop' = fresh.ringPop
              /\ gdRingInvSq' = fresh.ringInvSq
              /\ gdRingArea' = fresh.ringArea
              /\ gdTotalPop' = fresh.totalPop
              /\ gdInvSqSum' = fresh.inverseSqSum
              /\ gdWeightSum' = fresh.inverseSqWeightSum
              /\ gdPixels' = fresh.pixelsProcessed
    /\ gdPhase' = "loop"
    /\ gdRow' = 0
    /\ gdCol' = 0
    /\ gdResult' = <<>>
    /\ UNCHANGED <<readVars, imgVars, qryVars, lkVars, accVars, ttVars, genVars, scVars, hookVars, winVars, popVars, batchVars>>

\* One iteration of the pixel loop, for the pixel at (gdRow, gdCol).
GridPixel ==
    /\ gdPhase = "loop"
    /\ gdRow < GridSize
    /\ LET d2 == DistSquared(gdRow, gdCol)
           pop == IF gdRow = GridCenter /\ gdCol = GridCenter
                     THEN gdCenterPop ELSE gdOtherPop
       IN  IF d2 > gdRadius * gdRadius \/ pop < 0
              THEN UNCHANGED <<gdRingPop, gdRingInvSq, gdRingArea, gdTotalPop,
                               gdInvSqSum, gdWeightSum, gdPixels>>
              ELSE LET ringIdx == FindRingSquared(d2, gdBounds, gdRadius)
                       weight == WeightOfSquare(d2)
                   IN  /\ gdPixels' = gdPixels + 1
                       /\ gdTotalPop' = gdTotalPop + pop
                       /\ IF ringIdx >= 0
                             THEN /\ gdRingPop' = [gdRingPop EXCEPT
                                                     ![ringIdx + 1] = @ + pop]
                                  /\ gdRingInvSq' = [gdRingInvSq EXCEPT
                                                       ![ringIdx + 1] = @ + pop * weight]
                                  /\ gdInvSqSum' = gdInvSqSum + pop * weight
                                  /\ gdWeightSum' = gdWeightSum + MassAdded(pop, weight)
                                  /\ gdRingArea' = [gdRingArea EXCEPT
                                                      ![ringIdx + 1] = @ + GridPixelArea]
                             ELSE UNCHANGED <<gdRingPop, gdRingInvSq, gdRingArea,
                                              gdInvSqSum, gdWeightSum>>
    /\ IF gdCol < GridSize - 1
          THEN gdCol' = gdCol + 1 /\ gdRow' = gdRow
          ELSE gdCol' = 0 /\ gdRow' = gdRow + 1
    /\ UNCHANGED <<gdPhase, gdCenterPop, gdOtherPop, gdRadius, gdBounds, gdResult>>
    /\ UNCHANGED <<readVars, imgVars, qryVars, lkVars, accVars, ttVars, genVars, scVars, hookVars, winVars, popVars, batchVars>>

\* One RingResult of the pass on the grid: area = ringArea[r] || 1.
GridRingResult(r) ==
    LET area == IF gdRingArea[r] = 0 THEN 10 ELSE gdRingArea[r]
    IN  [innerKm |-> gdBounds[r],
         outerKm |-> gdBounds[r + 1],
         population |-> gdRingPop[r],
         inverseSqContribution |-> RoundDiv(100 * gdRingInvSq[r], WeightScale \div 100),
         areaSqKm |-> area,
         density |-> RoundDiv(10 * gdRingPop[r], area)]

\* row > row1: the results are built and returned.
GridFinish ==
    /\ gdPhase = "loop"
    /\ gdRow = GridSize
    /\ gdPhase' = "done"
    /\ gdResult' =
          [totalPopulation |-> gdTotalPop,
           inverseSqSum |-> RoundDiv(100 * gdInvSqSum, WeightScale \div 100),
           inverseSqNormalized |-> Normalized(gdInvSqSum, gdWeightSum),
           rings |-> [r \in 1..(Len(gdBounds) - 1) |-> GridRingResult(r)],
           pixelsProcessed |-> gdPixels,
           radiusKm |-> gdRadius]
    /\ UNCHANGED <<gdCenterPop, gdOtherPop, gdRadius, gdRow, gdCol, gdBounds,
                   gdRingPop, gdRingInvSq, gdRingArea, gdTotalPop, gdInvSqSum,
                   gdWeightSum, gdPixels>>
    /\ UNCHANGED <<readVars, imgVars, qryVars, lkVars, accVars, ttVars, genVars, scVars, hookVars, winVars, popVars, batchVars>>

NextGrid ==
    \/ GridStart
    \/ GridPixel
    \/ GridFinish

\* --------------- population.ts and travel-time-grid.ts: the pixel window

\* image.getWidth() and image.getHeight() of the model's raster.
RasterWidth == MaxColumns
RasterHeight == MaxRows

\* image.getResolution(): [resX, resY], resY negative. Coordinates are in
\* half pixels, so that a box edge can fall on a pixel edge or inside a pixel.
PixelUnits == 2
ResX == PixelUnits
ResY == 0 - PixelUnits

\* image.getOrigin(): the top-left corner of the raster; the raster spans
\* longitudes 0 .. RasterWidth * PixelUnits and latitudes 0 .. OriginY.
OriginX == 0
OriginY == RasterHeight * PixelUnits

\* The boxes boundingBox returns: minLng < maxLng and minLat < maxLat (the
\* radius is positive), from more than a pixel outside the raster on one side
\* to more than a pixel outside on the other.
LngSamplesOfBox == (OriginX - PixelUnits - 1)..(RasterWidth * PixelUnits + PixelUnits + 1)
LatSamplesOfBox == (0 - PixelUnits - 1)..(OriginY + PixelUnits + 1)
Boxes ==
    {b \in [minLng : LngSamplesOfBox, minLat : LatSamplesOfBox,
            maxLng : LngSamplesOfBox, maxLat : LatSamplesOfBox] :
        b.minLng < b.maxLng /\ b.minLat < b.maxLat}

\* Math.floor(n / d) and Math.ceil(n / d) for integers n and d # 0.
FloorDiv(n, d) == IF d > 0 THEN n \div d ELSE (0 - n) \div (0 - d)
CeilDiv(n, d) == 0 - FloorDiv(0 - n, d)

\* const col0 = Math.max(0, Math.floor((minLng - originX) / resX));
Col0(box) == Max(0, FloorDiv(box.minLng - OriginX, ResX))

\* const col1 = Math.min(width - 1, Math.ceil((maxLng - originX) / resX));
Col1(box) == Min(RasterWidth - 1, CeilDiv(box.maxLng - OriginX, ResX))

\* A bug: the top row taken from minLat, as if resY were positive.
Row0FromMinLat(box) == Max(0, FloorDiv(box.minLat - OriginY, ResY))

\* const row0 = Math.max(0, Math.floor((maxLat - originY) / resY));
Row0(box) == Max(0, FloorDiv(box.maxLat - OriginY, ResY))

\* const row1 = Math.min(height - 1, Math.ceil((minLat - originY) / resY));
Row1(box) == Min(RasterHeight - 1, CeilDiv(box.minLat - OriginY, ResY))

\* The loops for (row = row0; row <= row1; ...) for (col = col0; col <= col1; ...)
\* have no iteration.
EmptyWindow(w) == w.col0 > w.col1 \/ w.row0 > w.row1

WindowCallers == {"computePopulation", "extractPopulatedCells"}

WindowInit ==
    /\ wnPhase = "idle"
    /\ wnCaller = "computePopulation"
    /\ wnRadius = 0
    /\ wnBox = [minLng |-> 0, minLat |-> 0, maxLng |-> 0, maxLat |-> 0]
    /\ wnWindow = [col0 |-> 0, row0 |-> 0, col1 |-> 0, row1 |-> 0]
    /\ wnResult = <<>>

\* A call of computePopulation or extractPopulatedCells, up to the window:
\* boundingBox and the conversion to pixel coordinates.
WindowQuery ==
    /\ wnPhase = "idle"
    /\ \E caller \in WindowCallers : wnCaller' = caller
    /\ \E radiusKm \in GridRadiusSamples : wnRadius' = radiusKm
    /\ \E box \in Boxes :
          /\ wnBox' = box
          /\ wnWindow' = [col0 |-> Col0(box), row0 |-> Row0(box),
                          col1 |-> Col1(box), row1 |-> Row1(box)]
    /\ wnPhase' = "window"
    /\ wnResult' = <<>>
    /\ UNCHANGED <<readVars, imgVars, qryVars, lkVars, accVars, ttVars, genVars, scVars, hookVars, gridVars, popVars, batchVars>>

\* await image.readRasters({ window: [col0, row0, col1 + 1, row1 + 1] }) for
\* a window of at least one pixel.
WindowRead ==
    /\ wnPhase = "window"
    /\ ~EmptyWindow(wnWindow)
    /\ wnPhase' = "read"
    /\ UNCHANGED <<wnCaller, wnRadius, wnBox, wnWindow, wnResult>>
    /\ UNCHANGED <<readVars, imgVars, qryVars, lkVars, accVars, ttVars, genVars, scVars, hookVars, gridVars, popVars, batchVars>>

\* The same read for a window whose right edge is not beyond its left one, or
\* whose bottom edge is not below its top one: the geotiff library, which is
\* not part of this repository, returns an empty array or throws.
WindowReadEmpty ==
    /\ wnPhase = "window"
    /\ EmptyWindow(wnWindow)
    /\ \E outcome \in {"read", "failed"} : wnPhase' = outcome
    /\ UNCHANGED <<wnCaller, wnRadius, wnBox, wnWindow, wnResult>>
    /\ UNCHANGED <<readVars, imgVars, qryVars, lkVars, accVars, ttVars, genVars, scVars, hookVars, gridVars, popVars, batchVars>>

\* One RingResult of a pass without pixels: area = ringArea[r] || 1.
EmptyRingResult(bounds, fresh, r) ==
    LET area == IF fresh.ringArea[r] = 0 THEN 10 ELSE fresh.ringArea[r]
    IN  [innerKm |-> bounds[r],
         outerKm |-> bounds[r + 1],
         population |-> fresh.ringPop[r],
         inverseSqContribution |->
             RoundDiv(100 * fresh.ringInvSq[r], WeightScale \div 100),
         areaSqKm |-> area,
         density |-> RoundDiv(10 * fresh.ringPop[r], area)]

\* The rest of the call for a window without pixels: the ring boundaries and
\* the accumulators are set up, no pixel is iterated, the result is built.
WindowPassEmpty ==
    /\ wnPhase = "read"
    /\ EmptyWindow(wnWindow)
    /\ wnPhase' = "done"
    /\ wnResult' =
          IF wnCaller = "computePopulation"
             THEN LET bounds == GenerateRingBoundaries(wnRadius)
                      fresh == Allocate(Len(bounds) - 1)
                  IN  [totalPopulation |-> fresh.totalPop,
                       inverseSqSum |->
                           RoundDiv(100 * fresh.inverseSqSum, WeightScale \div 100),
                       inverseSqNormalized |->
                           Normalized(fresh.inverseSqSum, fresh.inverseSqWeightSum),
                       rings |-> [r \in 1..(Len(bounds) - 1) |->
                                     EmptyRingResult(bounds, fresh, r)],
                       pixelsProcessed |-> fresh.pixelsProcessed,
                       radiusKm |-> wnRadius]
             ELSE [cells |-> <<>>, pixelSizeDeg |-> PixelUnits]
    /\ UNCHANGED <<wnCaller, wnRadius, wnBox, wnWindow>>
    /\ UNCHANGED <<readVars, imgVars, qryVars, lkVars, accVars, ttVars, genVars, scVars, hookVars, gridVars, popVars, batchVars>>

\* The rest of the call for a window of at least one pixel is the pixel loop.
WindowPass ==
    /\ wnPhase = "read"
    /\ ~EmptyWindow(wnWindow)
    /\ wnPhase' = "pass"
    /\ UNCHANGED <<wnCaller, wnRadius, wnBox, wnWindow, wnResult>>
    /\ UNCHANGED <<readVars, imgVars, qryVars, lkVars, accVars, ttVars, genVars, scVars, hookVars, gridVars, popVars, batchVars>>

NextWindow ==
    \/ WindowQuery
    \/ WindowRead
    \/ WindowReadEmpty
    \/ WindowPassEmpty
    \/ WindowPass

\* ------------------------------------------- useTravelTimeData.ts: filter

\* null, for cell.driving, cell.transit and the result of getTravelTime.
NullTime == 0 - 1

MIN_TIME_SEC == 60

\* [minMin, maxMin] of each band, in minutes.
TIME_BAND_RANGES ==
    << <<0, 15>>, <<15, 30>>, <<30, 45>>, <<45, 60>>, <<60, 90>>, <<90, 120>>,
       <<120, 180>> >>

TransportModes == {"driving", "transit", "fastest"}

\* cell.driving and cell.transit, in seconds: unreachable, below MIN_TIME_SEC,
\* 15 minutes, 60 minutes, 180 minutes.
DrivingSamples == {NullTime, 30, 900, 10800}

TransitSamples == {NullTime, 900, 3600}

\* cell.pop: extractPopulatedCells keeps positive counts.
CellPops == {1, 2}

CellSamples == [pop : CellPops, driving : DrivingSamples, transit : TransitSamples]

\* maxTimeMin: the slider goes from 15 to 180 minutes.
MaxTimeSamples == {15, 180}

\* Math.min(cell.driving, cell.transit) without the null test: null is 0.
GetTravelTimeNullAsZero(cell, mode) ==
    IF mode = "driving" THEN cell.driving
    ELSE IF mode = "transit" THEN cell.transit
    ELSE Min(Max(cell.driving, 0), Max(cell.transit, 0))

GetTravelTime(cell, mode) ==
    IF mode = "driving" THEN cell.driving
    ELSE IF mode = "transit" THEN cell.transit
    ELSE IF cell.driving # NullTime /\ cell.transit # NullTime
            THEN Min(cell.driving, cell.transit)
    ELSE IF cell.driving # NullTime THEN cell.driving ELSE cell.transit

\* The unit of the weights of a run: 1 / (180 min in seconds)^exponent, so
\* that every weight 1 / Math.pow(t, exponent) is an exact integer.
WeightUnit(exponent) == Pow(180 * 60, exponent)

\* const t = Math.max(time, MIN_TIME_SEC); const weight = 1 / Math.pow(t, exponent);
TimeWeight(time, exponent) ==
    WeightUnit(exponent) \div Pow(Max(time, MIN_TIME_SEC), exponent)

\* if (time === null || time > maxTimeSec) continue;   only the null test
SkippedNullOnly(time, maxTimeMin) == time = NullTime

\* if (time === null || time > maxTimeSec) continue;
Skipped(time, maxTimeMin) == time = NullTime \/ time > maxTimeMin * 60

\* The band loop for one cell: the first band with
\* timeMin >= minMin && timeMin < maxMin, where timeMin = time / 60; 0 when no
\* band matches and the loop ends without a break.
BandIndex(time) ==
    LET hits == {b \in 1..Len(TIME_BAND_RANGES) :
                    /\ time >= TIME_BAND_RANGES[b][1] * 60
                    /\ time < TIME_BAND_RANGES[b][2] * 60}
    IN  IF hits = {} THEN 0 ELSE CHOOSE b \in hits : \A o \in hits : b <= o

\* timeBands after the loop over the filtered cells.
TimeBands(cells) ==
    [b \in 1..Len(TIME_BAND_RANGES) |->
        LET inBand == SelectSeq(cells, LAMBDA c : BandIndex(c.time) = b)
        IN  [minMin |-> TIME_BAND_RANGES[b][1],
             maxMin |-> TIME_BAND_RANGES[b][2],
             population |-> SeqSum([i \in 1..Len(inBand) |-> inBand[i].pop]),
             weightedContribution |->
                 SeqSum([i \in 1..Len(inBand) |-> inBand[i].weight]),
             cellCount |-> Len(inBand)]]

\* weightSum > 0 ? Math.round((rawSum / weightSum) * 100) / 100 : 0
TimeNormalized(sum, mass) ==
    IF mass > 0 THEN RoundDiv(100 * sum, mass) ELSE 0

\* totalCells > 0 ? Math.round((n / totalCells) * 1000) / 10 : 0, in tenths.
CoveragePct(n, totalCells) ==
    IF totalCells > 0 THEN RoundDiv(1000 * n, totalCells) ELSE 0

FilterInit ==
    /\ ttPhase = "idle"
    /\ ttRerun = FALSE
    /\ ttData = <<>>
    /\ ttMode = "fastest"
    /\ ttExponent = 2
    /\ ttMaxTimeMin = 15
    /\ ttIdx = 0
    /\ filteredCells = <<>>
    /\ rawSum = 0
    /\ weightSum = 0
    /\ totalPopulation = 0
    /\ ttResults = <<>>

\* The accumulators of a run that does not allocate its own: those the
\* previous run left.
FilterAllocateShared == <<filteredCells, rawSum, weightSum, totalPopulation>>

\* const filteredCells = []; let rawSum = 0; let weightSum = 0;
\* let totalPopulation = 0;
FilterAllocate == << <<>>, 0, 0, 0 >>

\* The useMemo callback runs (first render with data, or data, mode,
\* exponent or maxTimeMin changed): its locals are initialised.
FilterStart ==
    /\ ttPhase \in {"idle", "done"}
    /\ \E mode \in TransportModes :
       \E exponent \in ExponentSamples : \E maxTimeMin \in MaxTimeSamples :
          /\ ttMode' = mode
          /\ ttExponent' = exponent
          /\ ttMaxTimeMin' = maxTimeMin
    /\ ttPhase' = "loop"
    /\ ttRerun' = (ttPhase = "done")
    /\ ttData' = <<>>
    /\ ttIdx' = 0
    /\ LET fresh == FilterAllocate
       IN  /\ filteredCells' = fresh[1]
           /\ rawSum' = fresh[2]
           /\ weightSum' = fresh[3]
           /\ totalPopulation' = fresh[4]
    /\ ttResults' = <<>>
    /\ UNCHANGED <<readVars, imgVars, qryVars, lkVars, accVars, genVars, scVars, hookVars, gridVars, winVars, popVars, batchVars>>

\* One iteration of for (const cell of data.cells), for the next cell of the
\* data.
FilterCell ==
    /\ ttPhase = "loop"
    /\ ttIdx < MaxCells
    /\ ttIdx' = ttIdx + 1
    /\ \E cell \in CellSamples :
       LET time == GetTravelTime(cell, ttMode)
       IN  /\ ttData' = Append(ttData, cell)
           /\ IF Skipped(time, ttMaxTimeMin)
                 THEN UNCHANGED <<filteredCells, rawSum, weightSum, totalPopulation>>
                 ELSE LET weight == TimeWeight(time, ttExponent)
                          contribution == cell.pop * weight
                      IN  /\ filteredCells' =
                                 Append(filteredCells,
                                        [pop |-> cell.pop, driving |-> cell.driving,
                                         transit |-> cell.transit, time |-> time,
                                         weight |-> contribution])
                          /\ rawSum' = rawSum + contribution
                          /\ weightSum' = weightSum + weight
                          /\ totalPopulation' = totalPopulation + cell.pop
    /\ UNCHANGED <<ttPhase, ttRerun, ttMode, ttExponent, ttMaxTimeMin, ttResults>>
    /\ UNCHANGED <<readVars, imgVars, qryVars, lkVars, accVars, genVars, scVars, hookVars, gridVars, winVars, popVars, batchVars>>

\* data.cells is exhausted: the band loop, the coverage counts and the
\* returned object. (transitNearPct, which depends on the coordinates of the
\* cells, is not part of the record.)
FilterFinish ==
    /\ ttPhase = "loop"
    /\ ttPhase' = "done"
    /\ LET totalCells == Len(ttData)
           transitCells == Len(SelectSeq(ttData, LAMBDA c : c.transit # NullTime))
           drivingCells == Len(SelectSeq(ttData, LAMBDA c : c.driving # NullTime))
       IN  ttResults' =
              [totalReachable |-> Len(filteredCells),
               totalPopulation |-> totalPopulation,
               rawSum |-> RoundDiv(100 * rawSum, WeightUnit(ttExponent)),
               normalized |-> TimeNormalized(rawSum, weightSum),
               timeBands |-> TimeBands(filteredCells),
               cells |-> filteredCells,
               transitCoveragePct |-> CoveragePct(transitCells, totalCells),
               drivingCoveragePct |-> CoveragePct(drivingCells, totalCells)]
    /\ UNCHANGED <<ttRerun, ttData, ttMode, ttExponent, ttMaxTimeMin, ttIdx,
                   filteredCells, rawSum, weightSum, totalPopulation>>
    /\ UNCHANGED <<readVars, imgVars, qryVars, lkVars, accVars, genVars, scVars, hookVars, gridVars, winVars, popVars, batchVars>>

NextFilter ==
    \/ FilterStart
    \/ FilterCell
    \/ FilterFinish

\* ------------------------------------------ population.ts: buildSuperCells

\* Cells per side of a supercell. Coordinates are in pixels (PIXEL_SIZE_DEG is
\* the unit), so SUPER_SIZE_DEG is DOWNSAMPLE.
DOWNSAMPLE == 4

\* c.lat and c.lng of a cell: lat -1 is in the tile below that of 0 and 3.
LatSamples == {0 - 1, 0, 3}

LngSamples == {3, 4}

\* The cells of results.cells: pop, time and weight (the contribution
\* pop * weight of the filter, here for exponent 2).
TileCellSamples ==
    {[lat |-> lat, lng |-> lng, pop |-> pop, time |-> time,
      weight |-> pop * TimeWeight(time, 2)] :
        lat \in LatSamples, lng \in LngSamples, pop \in {0, 1, 2},
        time \in {600, 1800}}

\* Math.floor(x / SUPER_SIZE_DEG) * SUPER_SIZE_DEG
Snap(x) == (x \div DOWNSAMPLE) * DOWNSAMPLE

\* sc.totalPop += c.pop; ... with the weight assigned, not added.
AddCellWeightAssigned(sc, c) ==
    [sc EXCEPT !.totalPop = @ + c.pop,
               !.totalWeight = c.weight,
               !.sumPopTime = @ + c.pop * c.time,
               !.count = @ + 1]

\* sc.totalPop += c.pop; ... with the population assigned, not added.
AddCellPopAssigned(sc, c) ==
    [sc EXCEPT !.totalPop = c.pop,
               !.totalWeight = @ + c.weight,
               !.sumPopTime = @ + c.pop * c.time,
               !.count = @ + 1]

\* sc.totalPop += c.pop; sc.totalWeight += c.weight;
\* sc.sumPopTime += c.pop * c.time; sc.count++;
AddCell(sc, c) ==
    [sc EXCEPT !.totalPop = @ + c.pop,
               !.totalWeight = @ + c.weight,
               !.sumPopTime = @ + c.pop * c.time,
               !.count = @ + 1]

\* One iteration of for (const c of cells). The Map is the sequence of its
\* values in insertion order, which is the order map.values() iterates in; the
\* key `${gLat},${gLng}` is the pair of snapped coordinates.
BinCell(map, c) ==
    LET gLat == Snap(c.lat)
        gLng == Snap(c.lng)
        found == {i \in 1..Len(map) : map[i].gLat = gLat /\ map[i].gLng = gLng}
    IN  IF found = {}
           THEN Append(map, AddCell([gLat |-> gLat, gLng |-> gLng, totalPop |-> 0,
                                     totalWeight |-> 0, sumPopTime |-> 0,
                                     count |-> 0], c))
           ELSE LET i == CHOOSE k \in found : TRUE
                IN  [map EXCEPT ![i] = AddCell(map[i], c)]

RECURSIVE BinCells(_, _)
BinCells(map, cells) ==
    IF cells = <<>> THEN map ELSE BinCells(BinCell(map, Head(cells)), Tail(cells))

\* One feature: travelTimeMin = Math.round(avgTime / 60), weight, pop, and the
\* square whose lower left corner is (gLng, gLat).
Feature(sc) ==
    [travelTimeMin |-> IF sc.totalPop > 0
                          THEN RoundDiv(sc.sumPopTime, sc.totalPop * 60)
                          ELSE 0,
     weight |-> sc.totalWeight,
     pop |-> sc.totalPop,
     gLat |-> sc.gLat,
     gLng |-> sc.gLng]

\* The features of the collection buildSuperCells(cells) returns.
BuildSuperCells(cells) ==
    LET map == BinCells(<<>>, cells)
    IN  [i \in 1..Len(map) |-> Feature(map[i])]

SuperInit ==
    /\ scPhase = "idle"
    /\ scCells = <<>>
    /\ scFeatures = <<>>
    /\ scPermCells = <<>>
    /\ scPermFeatures = <<>>

\* buildSuperCells(results.cells)
BuildCall ==
    /\ scPhase = "idle"
    /\ \E n \in 0..MaxTileCells : \E cells \in [1..n -> TileCellSamples] :
          /\ scCells' = cells
          /\ scFeatures' = BuildSuperCells(cells)
    /\ scPhase' = "built"
    /\ UNCHANGED <<scPermCells, scPermFeatures>>
    /\ UNCHANGED <<readVars, imgVars, qryVars, lkVars, accVars, ttVars, genVars, hookVars, gridVars, winVars, popVars, batchVars>>

\* buildSuperCells called again with the same cells in another order.
BuildPermutedCall ==
    /\ scPhase = "built"
    /\ \E p \in Permutations(1..Len(scCells)) :
          LET cells == [i \in 1..Len(scCells) |-> scCells[p[i]]]
          IN  /\ scPermCells' = cells
              /\ scPermFeatures' = BuildSuperCells(cells)
    /\ scPhase' = "rebuilt"
    /\ UNCHANGED <<scCells, scFeatures>>
    /\ UNCHANGED <<readVars, imgVars, qryVars, lkVars, accVars, ttVars, genVars, hookVars, gridVars, winVars, popVars, batchVars>>

NextSuper ==
    \/ BuildCall
    \/ BuildPermutedCall

\* ----------------------------------- useTravelTimeData.ts: state and fetch

Origins == {"A", "B"}

HookInit ==
    /\ originId = "null"
    /\ effectPending = FALSE
    /\ hkData = "null"
    /\ hkResults = "null"
    /\ hkLoading = FALSE
    /\ hkError = "null"
    /\ fetches = <<>>
    /\ abortRef = 0
    /\ cleanup = 0

\* results = useMemo(...): null without data, else computed from data.cells.
Memo(data) == IF data = "null" THEN "null" ELSE data

\* controller.abort(): a fetch in flight rejects with an AbortError; one that
\* has settled is not affected. Controller 0 is no controller.
Abort(fs, c) ==
    IF c # 0 /\ fs[c].st = "inflight" THEN [fs EXCEPT ![c].st = "aborted"] ELSE fs

\* The parent renders the hook with another originId.
SelectOrigin ==
    /\ ~effectPending
    /\ Len(fetches) < MaxSelections
    /\ \E o \in Origins \cup {"null"} :
          /\ o # originId
          /\ originId' = o
    /\ effectPending' = TRUE
    /\ UNCHANGED <<hkData, hkResults, hkLoading, hkError, fetches, abortRef, cleanup>>
    /\ UNCHANGED <<readVars, imgVars, qryVars, lkVars, accVars, ttVars, genVars, scVars, gridVars, winVars, popVars, batchVars>>

\* The effect of [originId] runs: first the cleanup the previous run
\* returned, then the body.
RunEffect ==
    /\ effectPending
    /\ effectPending' = FALSE
    /\ LET cleaned == Abort(fetches, cleanup)
       IN  IF originId = "null"
              THEN /\ hkData' = "null"
                   /\ hkResults' = Memo("null")
                   /\ fetches' = cleaned
                   /\ cleanup' = 0
                   /\ UNCHANGED <<hkLoading, hkError, abortRef>>
              ELSE /\ fetches' = Append(Abort(cleaned, abortRef),
                                        [origin |-> originId, st |-> "inflight"])
                   /\ abortRef' = Len(fetches) + 1
                   /\ cleanup' = Len(fetches) + 1
                   /\ hkLoading' = TRUE
                   /\ hkError' = "null"
                   /\ UNCHANGED <<hkData, hkResults>>
    /\ UNCHANGED originId
    /\ UNCHANGED <<readVars, imgVars, qryVars, lkVars, accVars, ttVars, genVars, scVars, gridVars, winVars, popVars, batchVars>>

\* The response of fetch c is ok and its body parsed: setData(result);
\* setLoading(false); and the render that follows recomputes results.
FetchSucceeds(c) ==
    /\ fetches[c].st = "inflight"
    /\ fetches' = [fetches EXCEPT ![c].st = "ok"]
    /\ hkData' = fetches[c].origin
    /\ hkResults' = Memo(fetches[c].origin)
    /\ hkLoading' = FALSE
    /\ UNCHANGED <<originId, effectPending, hkError, abortRef, cleanup>>
    /\ UNCHANGED <<readVars, imgVars, qryVars, lkVars, accVars, ttVars, genVars, scVars, gridVars, winVars, popVars, batchVars>>

\* fetch c fails (network error, or a response that is not ok):
\* setError(message); setLoading(false).
FetchFails(c) ==
    /\ fetches[c].st = "inflight"
    /\ fetches' = [fetches EXCEPT ![c].st = "failed"]
    /\ hkError' = fetches[c].origin
    /\ hkLoading' = FALSE
    /\ UNCHANGED <<originId, effectPending, hkData, hkResults, abortRef, cleanup>>
    /\ UNCHANGED <<readVars, imgVars, qryVars, lkVars, accVars, ttVars, genVars, scVars, gridVars, winVars, popVars, batchVars>>

\* The AbortError of an aborted fetch reaches the catch, which returns.
AbortDelivered(c) ==
    /\ fetches[c].st = "aborted"
    /\ fetches' = [fetches EXCEPT ![c].st = "dropped"]
    /\ UNCHANGED <<originId, effectPending, hkData, hkResults, hkLoading, hkError,
                   abortRef, cleanup>>
    /\ UNCHANGED <<readVars, imgVars, qryVars, lkVars, accVars, ttVars, genVars, scVars, gridVars, winVars, popVars, batchVars>>

NextHook ==
    \/ SelectOrigin
    \/ RunEffect
    \/ \E c \in 1..Len(fetches) : FetchSucceeds(c)
    \/ \E c \in 1..Len(fetches) : FetchFails(c)
    \/ \E c \in 1..Len(fetches) : AbortDelivered(c)

\* ------------------------------------- usePopulation.ts: state and fetch

\* The values of [lat, lng, radiusKm, exponent] with a point on the map.
PopQueries == {"P", "Q"}

PopHookInit ==
    /\ upQuery = "null"
    /\ upEffectPending = FALSE
    /\ upResult = "null"
    /\ upLoading = FALSE
    /\ upError = "null"
    /\ upFetches = <<>>
    /\ upAbortRef = 0

\* The parent renders the hook with another point, radius or exponent, or
\* with lat and lng null: fetchPopulation is a new callback.
ChangeQuery ==
    /\ ~upEffectPending
    /\ Len(upFetches) < MaxSelections
    /\ \E q \in PopQueries \cup {"null"} :
          /\ q # upQuery
          /\ upQuery' = q
    /\ upEffectPending' = TRUE
    /\ UNCHANGED <<upResult, upLoading, upError, upFetches, upAbortRef>>
    /\ UNCHANGED <<readVars, imgVars, qryVars, lkVars, accVars, ttVars, genVars, scVars, hookVars, gridVars, winVars, batchVars>>

\* The effect of [fetchPopulation] runs: first the cleanup of the previous
\* run, abortRef.current?.abort(), then fetchPopulation(), which returns at
\* once when lat or lng is null.
RunPopEffect ==
    /\ upEffectPending
    /\ upEffectPending' = FALSE
    /\ LET cleaned == Abort(upFetches, upAbortRef)
       IN  IF upQuery = "null"
              THEN /\ upFetches' = cleaned
                   /\ UNCHANGED <<upResult, upLoading, upError, upAbortRef>>
              ELSE /\ upFetches' = Append(Abort(cleaned, upAbortRef),
                                          [origin |-> upQuery, st |-> "inflight"])
                   /\ upAbortRef' = Len(upFetches) + 1
                   /\ upLoading' = TRUE
                   /\ upError' = "null"
                   /\ UNCHANGED upResult
    /\ UNCHANGED upQuery
    /\ UNCHANGED <<readVars, imgVars, qryVars, lkVars, accVars, ttVars, genVars, scVars, hookVars, gridVars, winVars, batchVars>>

\* The response of fetch c is ok and its body parsed: setResult(data); the
\* controller is not aborted, so finally calls setLoading(false).
PopFetchSucceeds(c) ==
    /\ upFetches[c].st = "inflight"
    /\ upFetches' = [upFetches EXCEPT ![c].st = "ok"]
    /\ upResult' = upFetches[c].origin
    /\ upLoading' = FALSE
    /\ UNCHANGED <<upQuery, upEffectPending, upError, upAbortRef>>
    /\ UNCHANGED <<readVars, imgVars, qryVars, lkVars, accVars, ttVars, genVars, scVars, hookVars, gridVars, winVars, batchVars>>

\* fetch c fails (network error, or a response that is not ok):
\* setError(message); finally calls setLoading(false).
PopFetchFails(c) ==
    /\ upFetches[c].st = "inflight"
    /\ upFetches' = [upFetches EXCEPT ![c].st = "failed"]
    /\ upError' = upFetches[c].origin
    /\ upLoading' = FALSE
    /\ UNCHANGED <<upQuery, upEffectPending, upResult, upAbortRef>>
    /\ UNCHANGED <<readVars, imgVars, qryVars, lkVars, accVars, ttVars, genVars, scVars, hookVars, gridVars, winVars, batchVars>>

\* The AbortError of an aborted fetch reaches the catch, which returns;
\* controller.signal.aborted is true, so finally does not call setLoading.
PopAbortDelivered(c) ==
    /\ upFetches[c].st = "aborted"
    /\ upFetches' = [upFetches EXCEPT ![c].st = "dropped"]
    /\ UNCHANGED <<upQuery, upEffectPending, upResult, upLoading, upError, upAbortRef>>
    /\ UNCHANGED <<readVars, imgVars, qryVars, lkVars, accVars, ttVars, genVars, scVars, hookVars, gridVars, winVars, batchVars>>

NextPopHook ==
    \/ ChangeQuery
    \/ RunPopEffect
    \/ \E c \in 1..Len(upFetches) : PopFetchSucceeds(c)
    \/ \E c \in 1..Len(upFetches) : PopFetchFails(c)
    \/ \E c \in 1..Len(upFetches) : PopAbortDelivered(c)

\* ---------------------- useBatchCompute.ts and ComputeDashboard.tsx

OriginIds == 1..MaxOrigins

\* The limit argument of start: 0 stands for undefined (no limit).
LimitSamples == {0, 1}

BatchInit ==
    /\ bcState = [status |-> "idle",
                  origins |-> [o \in OriginIds |-> "absent"],
                  current |-> 0, completed |-> 0, errors |-> 0, total |-> 0,
                  loadError |-> FALSE]
    /\ bcPauseRef = FALSE
    /\ bcAbortRef = 0
    /\ bcControllers = 0
    /\ bcServer = {}
    /\ bcMounted = FALSE
    /\ bcRuns = <<>>

\* A call of loadOrigins (kind "mount") or of start, waiting for the list.
NewRun(kind, limit) ==
    [kind |-> kind, pc |-> "loading", limit |-> limit, batch |-> <<>>,
     origin |-> 0, ctl |-> 0, req |-> "none", paused |-> FALSE]

Ended(run) == [run EXCEPT !.pc = "ended", !.origin = 0, !.req = "none"]

\* const pendingCount = state.origins.filter((o) => o.status !== "done").length
PendingCount == Cardinality({o \in OriginIds :
                               bcState.origins[o] \notin {"absent", "done"}})

\* origins.filter((o) => o.status !== "done"), sliced to limit, in list order.
RECURSIVE PendingFrom(_, _)
PendingFrom(o, computed) ==
    IF o > MaxOrigins THEN <<>>
    ELSE IF o \in computed THEN PendingFrom(o + 1, computed)
    ELSE <<o>> \o PendingFrom(o + 1, computed)

Batch(computed, limit) ==
    LET allPending == PendingFrom(1, computed)
    IN  IF limit > 0 /\ limit < Len(allPending)
           THEN SubSeq(allPending, 1, limit) ELSE allPending

\* The head of the for loop of start for one run, up to its next await, or
\* the code after the loop: the new state, the new run, and whether a
\* controller was created (its number is nextCtl); pause is pauseRef.current.
NextIteration(st, run, pause, nextCtl) ==
    IF run.batch = <<>>
       THEN LET stillPending == \E o \in OriginIds :
                                   st.origins[o] \in {"pending", "computing"}
            IN  [st |-> [st EXCEPT !.status = IF stillPending THEN "paused"
                                                             ELSE "done",
                                   !.current = 0],
                 run |-> Ended(run), started |-> FALSE]
       ELSE IF pause
          THEN [st |-> [st EXCEPT !.status = "paused", !.current = 0],
                run |-> Ended(run), started |-> FALSE]
          ELSE LET o == Head(run.batch)
               IN  [st |-> [st EXCEPT !.current = o,
                                      !.origins[o] = "computing"],
                    run |-> [run EXCEPT !.pc = "fetching", !.origin = o,
                                        !.batch = Tail(run.batch),
                                        !.ctl = nextCtl, !.req = "inflight"],
                    started |-> TRUE]

\* useEffect(() => { loadOrigins(); }, [loadOrigins]) of the dashboard.
MountLoadOrigins ==
    /\ ~bcMounted
    /\ bcMounted' = TRUE
    /\ bcRuns' = Append(bcRuns, NewRun("mount", 0))
    /\ UNCHANGED <<bcState, bcPauseRef, bcAbortRef, bcControllers, bcServer>>
    /\ UNCHANGED <<readVars, imgVars, qryVars, lkVars, accVars, ttVars, genVars, scVars, hookVars, gridVars, winVars, popVars>>

\* The Start / Resume / Restart button, shown unless status is "running" and
\* enabled when some origin is not done: start(limit) runs up to its await.
Start ==
    /\ bcState.status \in {"idle", "paused", "done"}
    /\ PendingCount > 0
    /\ Len(bcRuns) < MaxStarts + 1
    /\ bcPauseRef' = FALSE
    /\ \E limit \in LimitSamples : bcRuns' = Append(bcRuns, NewRun("start", limit))
    /\ UNCHANGED <<bcState, bcAbortRef, bcControllers, bcServer, bcMounted>>
    /\ UNCHANGED <<readVars, imgVars, qryVars, lkVars, accVars, ttVars, genVars, scVars, hookVars, gridVars, winVars, popVars>>

\* The Retry Errors button, shown when errors > 0 and status is not
\* "running": the error origins become pending, then start() without limit.
RetryErrors ==
    /\ bcState.errors > 0
    /\ bcState.status # "running"
    /\ Len(bcRuns) < MaxStarts + 1
    /\ bcState' = [bcState EXCEPT
                       !.errors = 0,
                       !.origins = [o \in OriginIds |->
                                       IF bcState.origins[o] = "error"
                                          THEN "pending" ELSE bcState.origins[o]]]
    /\ bcPauseRef' = FALSE
    /\ bcRuns' = Append(bcRuns, NewRun("start", 0))
    /\ UNCHANGED <<bcAbortRef, bcControllers, bcServer, bcMounted>>
    /\ UNCHANGED <<readVars, imgVars, qryVars, lkVars, accVars, ttVars, genVars, scVars, hookVars, gridVars, winVars, popVars>>

\* The Pause button, shown while status is "running": pauseRef.current =
\* true; abortRef.current?.abort(). Aborting rejects the request of that
\* controller if it is in flight. Every run that is looping has now been
\* paused.
Pause ==
    /\ bcState.status = "running"
    /\ bcPauseRef' = TRUE
    /\ bcRuns' = [r \in 1..Len(bcRuns) |->
                     IF bcRuns[r].pc = "fetching"
                        THEN [bcRuns[r] EXCEPT
                                 !.paused = TRUE,
                                 !.req = IF bcRuns[r].ctl = bcAbortRef
                                               /\ bcRuns[r].req = "inflight"
                                            THEN "aborted" ELSE bcRuns[r].req]
                        ELSE bcRuns[r]]
    /\ UNCHANGED <<bcState, bcAbortRef, bcControllers, bcServer, bcMounted>>
    /\ UNCHANGED <<readVars, imgVars, qryVars, lkVars, accVars, ttVars, genVars, scVars, hookVars, gridVars, winVars, popVars>>

\* The origins request of run r is answered: loadOrigins sets origins (done
\* for computed ones, pending for the others), total, completed, errors = 0
\* and loadError = null; start then sets status "running", takes its batch
\* and enters the loop.
OriginsLoaded(r) ==
    /\ bcRuns[r].pc = "loading"
    /\ LET loaded == [bcState EXCEPT
                         !.origins = [o \in OriginIds |->
                                         IF o \in bcServer THEN "done" ELSE "pending"],
                         !.total = MaxOrigins,
                         !.completed = Cardinality(bcServer),
                         !.errors = 0,
                         !.loadError = FALSE]
       IN  IF bcRuns[r].kind = "mount"
              THEN /\ bcState' = loaded
                   /\ bcRuns' = [bcRuns EXCEPT ![r] = Ended(@)]
                   /\ UNCHANGED <<bcAbortRef, bcControllers>>
              ELSE LET run == [bcRuns[r] EXCEPT
                                  !.batch = Batch(bcServer, bcRuns[r].limit)]
                       it == NextIteration([loaded EXCEPT !.status = "running"],
                                           run, bcPauseRef, bcControllers + 1)
                   IN  /\ bcState' = it.st
                       /\ bcRuns' = [bcRuns EXCEPT ![r] = it.run]
                       /\ bcControllers' = IF it.started THEN bcControllers + 1
                                                         ELSE bcControllers
                       /\ bcAbortRef' = IF it.started THEN bcControllers + 1
                                                      ELSE bcAbortRef
    /\ UNCHANGED <<bcPauseRef, bcServer, bcMounted>>
    /\ UNCHANGED <<readVars, imgVars, qryVars, lkVars, accVars, ttVars, genVars, scVars, hookVars, gridVars, winVars, popVars>>

\* The origins request of run r fails: loadOrigins throws; start sets
\* loadError and returns (a mount's rejection is not handled).
OriginsLoadFails(r) ==
    /\ bcRuns[r].pc = "loading"
    /\ bcState' = IF bcRuns[r].kind = "start"
                     THEN [bcState EXCEPT !.loadError = TRUE] ELSE bcState
    /\ bcRuns' = [bcRuns EXCEPT ![r] = Ended(@)]
    /\ UNCHANGED <<bcPauseRef, bcAbortRef, bcControllers, bcServer, bcMounted>>
    /\ UNCHANGED <<readVars, imgVars, qryVars, lkVars, accVars, ttVars, genVars, scVars, hookVars, gridVars, winVars, popVars>>

\* The compute request of run r is answered, ok (the server has written the
\* result) or not ok, or fails on the network; the origin becomes done or
\* error and the loop goes on to its next iteration.
RequestSettles(r) ==
    /\ bcRuns[r].pc = "fetching"
    /\ bcRuns[r].req = "inflight"
    /\ \E ok \in BOOLEAN :
          LET o == bcRuns[r].origin
              st == IF ok THEN [bcState EXCEPT !.completed = @ + 1,
                                               !.origins[o] = "done"]
                          ELSE [bcState EXCEPT !.errors = @ + 1,
                                               !.origins[o] = "error"]
              it == NextIteration(st, bcRuns[r], bcPauseRef, bcControllers + 1)
          IN  /\ bcState' = it.st
              /\ bcRuns' = [bcRuns EXCEPT ![r] = it.run]
              /\ bcControllers' = IF it.started THEN bcControllers + 1
                                                ELSE bcControllers
              /\ bcAbortRef' = IF it.started THEN bcControllers + 1
                                             ELSE bcAbortRef
              /\ bcServer' = IF ok THEN bcServer \cup {o} ELSE bcServer
    /\ UNCHANGED <<bcPauseRef, bcMounted>>
    /\ UNCHANGED <<readVars, imgVars, qryVars, lkVars, accVars, ttVars, genVars, scVars, hookVars, gridVars, winVars, popVars>>

\* The AbortError of the aborted request of run r reaches the catch: status
\* "paused", current null, the origin back to pending, return. The server
\* may have completed the computation all the same.
AbortCaught(r) ==
    /\ bcRuns[r].pc = "fetching"
    /\ bcRuns[r].req = "aborted"
    /\ bcState' = [bcState EXCEPT !.status = "paused", !.current = 0,
                                  !.origins[bcRuns[r].origin] = "pending"]
    /\ bcRuns' = [bcRuns EXCEPT ![r] = Ended(@)]
    /\ \E written \in BOOLEAN :
          bcServer' = IF written THEN bcServer \cup {bcRuns[r].origin} ELSE bcServer
    /\ UNCHANGED <<bcPauseRef, bcAbortRef, bcControllers, bcMounted>>
    /\ UNCHANGED <<readVars, imgVars, qryVars, lkVars, accVars, ttVars, genVars, scVars, hookVars, gridVars, winVars, popVars>>

NextBatch ==
    \/ MountLoadOrigins
    \/ Start
    \/ RetryErrors
    \/ Pause
    \/ \E r \in 1..Len(bcRuns) : OriginsLoaded(r)
    \/ \E r \in 1..Len(bcRuns) : OriginsLoadFails(r)
    \/ \E r \in 1..Len(bcRuns) : RequestSettles(r)
    \/ \E r \in 1..Len(bcRuns) : AbortCaught(r)

Init ==
    /\ ReadInit /\ ImageInit /\ QueryInit /\ LookupInit /\ AccumInit
    /\ FilterInit /\ GenInit /\ SuperInit /\ HookInit /\ GridInit /\ WindowInit
    /\ PopHookInit /\ BatchInit

NextRead ==
    \/ ReadRastersExclusive
    \/ \E c \in Calls : RunCallback(c)
    \/ \E c \in Calls : ReadSettles(c)
    \/ \E c \in Calls : CallbackReturns(c)
    \/ \E c \in Calls : TailSettles(c)

SpecRead == Init /\ [][NextRead]_vars

SpecImage == Init /\ [][NextImage]_vars

SpecQuery == Init /\ [][NextQuery]_vars

SpecLookup == Init /\ [][NextLookup]_vars

SpecAccum == Init /\ [][NextAccum]_vars

SpecFilter == Init /\ [][NextFilter]_vars

SpecGen == Init /\ [][NextGen]_vars

SpecSuper == Init /\ [][NextSuper]_vars

SpecHook == Init /\ [][NextHook]_vars

SpecGrid == Init /\ [][NextGrid]_vars

SpecWindow == Init /\ [][NextWindow]_vars

SpecBatch == Init /\ [][NextBatch]_vars

\* Requests are answered or fail, and a rejection reaches its handler; the
\* user is not obliged to press a button.
FairSpecBatch ==
    /\ SpecBatch
    /\ \A r \in 1..(MaxStarts + 1) :
          /\ WF_vars(r <= Len(bcRuns) /\ (OriginsLoaded(r) \/ OriginsLoadFails(r)))
          /\ WF_vars(r <= Len(bcRuns) /\ RequestSettles(r))
          /\ WF_vars(r <= Len(bcRuns) /\ AbortCaught(r))

\* The two hooks are separate instances that share no state: each is
\* exercised while the other is still as it was constructed.
NextHooks ==
    \/ (upFetches = <<>> /\ ~upEffectPending) /\ NextHook
    \/ (fetches = <<>> /\ ~effectPending) /\ NextPopHook

\* React runs a pending effect, a request in flight settles, and the
\* rejection of an aborted request reaches its handler; the user is not
\* obliged to change the inputs again.
FairSpecHooks ==
    /\ Init /\ [][NextHooks]_vars
    /\ WF_vars(RunEffect)
    /\ WF_vars(RunPopEffect)
    /\ \A c \in 1..MaxSelections :
          /\ WF_vars(c <= Len(fetches) /\ (FetchSucceeds(c) \/ FetchFails(c)))
          /\ WF_vars(c <= Len(fetches) /\ AbortDelivered(c))
          /\ WF_vars(c <= Len(upFetches) /\ (PopFetchSucceeds(c) \/ PopFetchFails(c)))
          /\ WF_vars(c <= Len(upFetches) /\ PopAbortDelivered(c))

\* The two accumulation passes: computePopulation runs in the server route
\* and the travel-time filter in the browser hook, and they share no state, so
\* a behaviour follows the calls of one of them.
NextAccumulators ==
    \/ ttPhase = "idle" /\ NextAccum
    \/ acPhase = "idle" /\ NextFilter

SpecAccumulators == Init /\ [][NextAccumulators]_vars

\* The while loop of generateRingBoundaries is synchronous code: once called
\* it keeps taking steps.
FairSpecGen == SpecGen /\ WF_vars(NextGen)

\* The job queue runs every queued job, and every underlying read is assumed
\* to settle; callers are free to stop calling.
FairSpecRead ==
    /\ SpecRead
    /\ \A c \in Calls : WF_vars(RunCallback(c))
    /\ \A c \in Calls : WF_vars(ReadSettles(c))
    /\ \A c \in Calls : WF_vars(CallbackReturns(c))
    /\ \A c \in Calls : WF_vars(TailSettles(c))

\* ------------------------------------------------------------------ claims

InFlight == {c \in Calls : phys[c] = "inflight"}

\* C1: at most one underlying image.readRasters is in flight at any instant.
C1_AtMostOneInFlight == Cardinality(InFlight) <= 1

\* Two calls are queued behind a read that is in flight.
C1_Witness ==
    /\ nCalls >= 3
    /\ phys[1] = "inflight"
    /\ result[2] = "pending"
    /\ result[3] = "pending"

\* C2: the reads start in submission order: once the read of a call has
\* started, the read of every earlier call has settled (ok or fail).
C2_SubmissionOrder ==
    \A c \in Calls : \A b \in 1..(c - 1) :
        phys[c] # "none" => phys[b] \in {"ok", "fail"}

\* The read of call 3 is running after call 1 failed and call 2 succeeded.
C2_Witness ==
    /\ phys[1] = "fail"
    /\ phys[2] = "ok"
    /\ phys[3] = "inflight"

\* Some job of the promise chain, or the settling of a read, can run.
QueueCanMove ==
    ENABLED (\E c \in Calls : \/ RunCallback(c)
                              \/ ReadSettles(c)
                              \/ CallbackReturns(c)
                              \/ TailSettles(c))

\* C3: a call's promise rejects only with the error of its own read; every
\* settled call performed its own read and settled with that read's outcome;
\* the queue tail never carries a rejection, and while a call is unsettled
\* the queue is not stalled, whichever earlier calls failed.
C3_FailureIsolated ==
    /\ \A c \in Calls : result[c] = "rejected" => (phys[c] = "fail" /\ err[c] = c)
    /\ \A c \in Calls : result[c] = "resolved" => (phys[c] = "ok" /\ err[c] = 0)
    /\ \A c \in 0..MaxCalls : tail[c] # "rejected"
    /\ (\E c \in Calls : result[c] = "pending") => QueueCanMove

\* Call 1 failed; calls 2 and 3, queued behind it, read and succeeded.
C3_Witness ==
    /\ result[1] = "rejected"
    /\ result[2] = "resolved"
    /\ result[3] = "resolved"

\* C4: every call that was made eventually settles, provided every underlying
\* read settles.
C4_EveryCallSettles ==
    \A c \in Calls : (result[c] = "pending") ~> (result[c] \in Settled)

\* All calls were made, the first two failed and the last one settled.
C4_Witness ==
    /\ nCalls = MaxCalls
    /\ result[1] = "rejected"
    /\ result[2] = "rejected"
    /\ \A c \in Calls : result[c] \in Settled

PendingOpens == {k \in Opens : openSt[k] = "pending"}

\* Caller i makes its getImage call in this step.
CallsGetImage(i) == gpc[i] = "idle" /\ gpc'[i] # "idle"

\* Some caller has received the error of open k.
FailureDelivered(k) == \E j \in Callers : ret[j] = "err" /\ retVal[j] = k

C5_State ==
    /\ Cardinality(PendingOpens) <= 1
    /\ \A k \in Opens : \A l \in Opens :
          (k < l /\ openSt[l] # "unstarted") => openSt[k] = "rejected"
    /\ Cardinality({k \in Opens : openSt[k] = "fulfilled"}) <= 1
    /\ \A i \in Callers : \A j \in Callers :
          (ret[i] = "ok" /\ ret[j] = "ok") => retVal[i] = retVal[j]

C5_Step ==
    \A i \in Callers : \A k \in Opens :
        (CallsGetImage(i) /\ openSt[k] = "pending")
            => /\ nOpens' = nOpens
               /\ gpc'[i] = "joined"
               /\ waitOn'[i] = k

\* C5: an open is started only when none is in flight and none has succeeded
\* (every earlier open was rejected); a caller that arrives while an open is
\* in flight starts no open and awaits that one; at most one open succeeds;
\* all successful getImage calls return the same handle.
C5_SingleOpen == []C5_State /\ [][C5_Step]_vars

\* Three callers share the one open in flight.
C5_Witness ==
    /\ nOpens = 1
    /\ openSt[1] = "pending"
    /\ Cardinality({i \in Callers : gpc[i] \in {"opener", "joined"}}) >= 3

C6_State ==
    /\ \A i \in Callers :
          (gpc[i] = "done" /\ waitOn[i] # 0) =>
              /\ retVal[i] = waitOn[i]
              /\ ret[i] = (IF openSt[waitOn[i]] = "rejected" THEN "err" ELSE "ok")
    /\ \A k \in Opens : FailureDelivered(k) => (imagePromise # k /\ cachedImage # k)

C6_Step ==
    \A i \in Callers : \A k \in Opens :
        (CallsGetImage(i) /\ FailureDelivered(k))
            => /\ waitOn'[i] # k
               /\ retVal'[i] # k
               /\ (imagePromise = 0 /\ cachedImage = 0) =>
                      (nOpens' = nOpens + 1 /\ openSt'[nOpens'] = "pending")

\* C6: every caller that awaited a failed open receives its error; once the
\* failure has been delivered (the opener's catch block has run) the stored
\* promise is cleared; a getImage call made after that never returns the
\* earlier failure and, with nothing stored, starts a fresh open.
\* (A call made after the promise rejected but before the opener's catch
\* block has run still joins the rejected promise: it counts as a caller
\* awaiting that open and receives its error.)
C6_RetryAfterFailure == []C6_State /\ [][C6_Step]_vars

\* The first open failed and two callers received its error; a later call
\* opened again, that open succeeded and its handle is cached.
C6_Witness ==
    /\ openSt[1] = "rejected"
    /\ Cardinality({i \in Callers : ret[i] = "err" /\ retVal[i] = 1}) >= 2
    /\ openSt[2] = "fulfilled"
    /\ cachedImage = 2
    /\ \E i \in Callers : ret[i] = "ok" /\ retVal[i] = 2

\* The queries of module m that have a windowed read in flight on handle h.
ReadsInFlight(m, h) ==
    {q \in Queries : qpc[q] = "reading" /\ qmod[q] = m /\ qimg[q] = h}

\* The queries of module m that have an open of the raster in flight.
OpeningQueries(m) ==
    {q \in Queries : qmod[q] = m /\ qpc[q] \in {"fromFile", "tiffGetImage"}}

\* C7: the windowed reads of the query paths are serialized: at most one
\* read is in flight against a shared image handle at any instant.
C7_QueryReadsSerialized ==
    \A m \in Modules : \A h \in Tiffs : Cardinality(ReadsInFlight(m, h)) <= 1

\* C8: across concurrent first-time queries the raster is opened at most
\* once: no second open is started while the first is in flight, in either
\* query module.
C8_QueryOpensOnce ==
    \A m \in Modules : Cardinality(OpeningQueries(m)) <= 1

\* The rings whose half-open interval [ringBounds[r], ringBounds[r + 1])
\* holds the looked-up distance.
RingsHolding ==
    {r \in 0..(Len(lkBounds) - 2) :
        Bound(lkBounds, r) <= lkDist /\ lkDist < Bound(lkBounds, r + 1)}

\* C9: for radiusKm > 0 and 0 <= dist <= radiusKm the lookup selects one ring
\* index in [0, ringCount - 1]: the one ring with
\* ringBounds[i] <= dist < ringBounds[i + 1], or the last ring when dist is
\* exactly radiusKm, where no half-open ring holds it.
C9_ExactlyOneRing ==
    lkPhase = "done" =>
        LET ringCount == Len(lkBounds) - 1 IN
        /\ lkRing \in 0..(ringCount - 1)
        /\ lkDist < lkRadius => RingsHolding = {lkRing}
        /\ lkDist = lkRadius => (RingsHolding = {} /\ lkRing = ringCount - 1)

\* A distance exactly at the radius of a 31.5 km query, whose 20 rings have
\* all three step sizes: it is assigned to the last ring.
C9_Witness ==
    /\ lkPhase = "done"
    /\ lkRadius = 315
    /\ lkDist = 315
    /\ Len(lkBounds) = 21
    /\ lkRing = 19

\* C10: the per-ring populations sum to the total population and the
\* per-ring weighted contributions sum to the raw gravity sum, at every point
\* of the pass and after it (sums are exact, before display rounding).
C10_Conservation ==
    acPhase \in {"loop", "done"} =>
        /\ SeqSum(ringPop) = totalPop
        /\ SeqSum(ringInvSq) = inverseSqSum

\* A finished pass that counted pixels in two rings and skipped one pixel.
C10_Witness ==
    /\ acPhase = "done"
    /\ acCount = MaxPixels
    /\ pixelsProcessed = acCount - 1
    /\ Len(ringPop) = 2
    /\ ringPop[1] > 0
    /\ ringPop[2] > 0

\* ---------------------------------------------------------------- C11
\* C11: when a run of the travel-time filter has returned, every cell counted
\* in the totals is counted in exactly one time band: the band populations sum
\* to totalPopulation, the band weighted contributions sum to the unrounded
\* raw sum, and the band cell counts sum to totalReachable.
C11_BandsConserve ==
    ttPhase = "done" =>
        LET bands == ttResults.timeBands
        IN  /\ SeqSum([b \in 1..Len(bands) |-> bands[b].population])
                  = ttResults.totalPopulation
            /\ SeqSum([b \in 1..Len(bands) |-> bands[b].weightedContribution])
                  = rawSum
            /\ SeqSum([b \in 1..Len(bands) |-> bands[b].cellCount])
                  = ttResults.totalReachable

\* ---------------------------------------------------------------- C12
\* The boundaries pushed so far start at 0 and are strictly increasing; the
\* list returned ends with exactly radiusKm, and is the list the accumulation
\* pass and the ring lookup use.
C12_Shape ==
    gbPhase \in {"loop", "done"} =>
        /\ gbBoundaries[1] = 0
        /\ \A i \in 1..(Len(gbBoundaries) - 1) : gbBoundaries[i] < gbBoundaries[i + 1]
        /\ gbPhase = "done" =>
              /\ gbBoundaries[Len(gbBoundaries)] = gbRadius
              /\ gbBoundaries = GenerateRingBoundaries(gbRadius)

\* C12: for every radiusKm > 0, generateRingBoundaries(radiusKm) terminates,
\* and the list it returns has first element 0, is strictly increasing and has
\* last element exactly radiusKm.
C12_RingBoundaries ==
    /\ []C12_Shape
    /\ (gbPhase = "loop") ~> (gbPhase = "done")

\* A call with radiusKm = 31.5 km has returned: all three step sizes were
\* used and the last step was cut to the radius.
C12_Witness ==
    /\ gbPhase = "done"
    /\ gbRadius = 315
    /\ Len(gbBoundaries) = 21
    /\ gbBoundaries[20] = 310

\* ---------------------------------------------------------------- C13
\* C13: every pixel the pass includes, at distance d, adds to the weight mass
\* the weight 1 / max(d, 0.1 km)^exponent, exponent being that of the query.
\* A weight w is stored as WeightScale / 100 times its value and a distance r
\* in units of 0.1 km, so w = 1 / r^exponent reads
\* w * r^exponent = (WeightScale / 100) * 10^exponent.
C13_WeightUsesExponent ==
    [][(acPhase = "loop" /\ pixelsProcessed' = pixelsProcessed + 1) =>
          LET r == Max(acPixel'.dist, MIN_DISTANCE_KM)
              weight == inverseSqWeightSum' - inverseSqWeightSum
          IN  weight * Pow(r, acExponent)
                  = (WeightScale \div 100) * Pow(10, acExponent)]_vars

\* ---------------------------------------------------------------- C14
\* n (in hundredths) is sum / mass rounded to two decimals, halves up.
IsRoundedQuotient(n, sum, mass) ==
    /\ 2 * n * mass - mass <= 200 * sum
    /\ 200 * sum < 2 * n * mass + mass

\* C14: in the result of computePopulation and in that of the travel-time
\* filter, normalized is 0 when the weight mass is 0, which is when no sample
\* was included, and otherwise the raw sum divided by the weight mass, rounded
\* to two decimals.
C14_NormalizedGuarded ==
    /\ acPhase = "done" =>
          /\ inverseSqWeightSum = 0 <=> pixelsProcessed = 0
          /\ IF inverseSqWeightSum = 0
                THEN acResult.inverseSqNormalized = 0
                ELSE IsRoundedQuotient(acResult.inverseSqNormalized,
                                       inverseSqSum, inverseSqWeightSum)
    /\ ttPhase = "done" =>
          /\ weightSum = 0 <=> filteredCells = <<>>
          /\ IF weightSum = 0
                THEN ttResults.normalized = 0
                ELSE IsRoundedQuotient(ttResults.normalized, rawSum, weightSum)

\* A pass of computePopulation returned after skipping every pixel of a
\* non-empty window: the weight mass is 0.
C14_Witness ==
    /\ acPhase = "done"
    /\ acCount > 0
    /\ inverseSqWeightSum = 0
    /\ acResult.inverseSqNormalized = 0

\* ---------------------------------------------------------------- C15
\* The effective time of a cell: the time of the mode chosen, and under
\* "fastest" the least of the times that are not null, null when both are.
EffectiveTime(cell, mode) ==
    LET times == IF mode = "driving" THEN {cell.driving}
                 ELSE IF mode = "transit" THEN {cell.transit}
                 ELSE {cell.driving, cell.transit}
        known == times \ {NullTime}
    IN  IF known = {} THEN NullTime
        ELSE CHOOSE t \in known : \A u \in known : t <= u

\* The positions in data.cells of the cells whose effective time is known and
\* at most the limit, in order.
KeptPositions ==
    SelectSeq([i \in 1..Len(ttData) |-> i],
              LAMBDA i : /\ EffectiveTime(ttData[i], ttMode) # NullTime
                         /\ EffectiveTime(ttData[i], ttMode) <= ttMaxTimeMin * 60)

\* C15: getTravelTime resolves the mode: driving and transit use that mode's
\* time, fastest the minimum of the two when both are known and otherwise the
\* known one. The cells iterated whose effective time is null (or above the
\* limit) are in none of the totals, the bands or the output cell list; all
\* others are, with their effective time.
C15_ModeResolution ==
    ttPhase \in {"loop", "done"} =>
        LET kept == KeptPositions
        IN  /\ Len(filteredCells) = Len(kept)
            /\ \A k \in 1..Len(kept) :
                  /\ filteredCells[k].time = EffectiveTime(ttData[kept[k]], ttMode)
                  /\ filteredCells[k].pop = ttData[kept[k]].pop
                  /\ filteredCells[k].driving = ttData[kept[k]].driving
                  /\ filteredCells[k].transit = ttData[kept[k]].transit
            /\ totalPopulation = SeqSum([k \in 1..Len(kept) |-> ttData[kept[k]].pop])
            /\ ttPhase = "done" =>
                  /\ ttResults.cells = filteredCells
                  /\ ttResults.totalReachable = Len(kept)
                  /\ ttResults.totalPopulation = totalPopulation
                  /\ \A b \in 1..Len(TIME_BAND_RANGES) :
                        ttResults.timeBands[b].cellCount =
                            Cardinality({k \in 1..Len(kept) :
                                LET t == EffectiveTime(ttData[kept[k]], ttMode)
                                IN  /\ t >= TIME_BAND_RANGES[b][1] * 60
                                    /\ t < TIME_BAND_RANGES[b][2] * 60})

\* Under "fastest", a run returned for a cell reachable by transit only and a
\* cell reachable by neither mode: the first is in the output, the second not.
C15_Witness ==
    /\ ttPhase = "done"
    /\ ttMode = "fastest"
    /\ Len(ttData) = 2
    /\ ttData[1].driving = NullTime /\ ttData[1].transit # NullTime
    /\ ttData[2].driving = NullTime /\ ttData[2].transit = NullTime
    /\ Len(ttResults.cells) = 1
    /\ ttResults.cells[1].time = ttData[1].transit

\* ---------------------------------------------------------------- C16
\* An iteration of the pixel loop of computePopulation for a pixel that is
\* farther than radiusKm or holds a negative or NaN population.
ExcludedPixelStep ==
    /\ acPhase = "loop"
    /\ acCount' = acCount + 1
    /\ \/ acPixel'.dist > acRadius
       \/ acPixel'.pop.nan
       \/ acPixel'.pop.v < 0

\* An iteration of the cell loop of the travel-time filter for a cell whose
\* effective time is null or above maxTimeMin.
ExcludedCellStep ==
    /\ ttPhase = "loop"
    /\ ttIdx' = ttIdx + 1
    /\ LET time == EffectiveTime(ttData'[ttIdx'], ttMode)
       IN  time = NullTime \/ time > ttMaxTimeMin * 60

C16_Step ==
    /\ ExcludedPixelStep =>
          UNCHANGED <<ringPop, ringInvSq, ringArea, totalPop, inverseSqSum,
                      inverseSqWeightSum, pixelsProcessed>>
    /\ ExcludedCellStep =>
          UNCHANGED <<filteredCells, rawSum, weightSum, totalPopulation>>

\* What is returned holds the accumulators, and the bands hold cells of the
\* output list only.
C16_State ==
    /\ acPhase = "done" =>
          /\ acResult.totalPopulation = totalPop
          /\ acResult.pixelsProcessed = pixelsProcessed
          /\ \A r \in 1..Len(ringPop) : acResult.rings[r].population = ringPop[r]
    /\ ttPhase = "done" =>
          /\ ttResults.totalPopulation = totalPopulation
          /\ ttResults.totalReachable = Len(filteredCells)
          /\ SeqSum([b \in 1..Len(TIME_BAND_RANGES) |->
                        ttResults.timeBands[b].cellCount]) <= Len(filteredCells)
          /\ SeqSum([b \in 1..Len(TIME_BAND_RANGES) |->
                        ttResults.timeBands[b].population]) <= totalPopulation

FreshPass ==
    (acPhase = "loop" /\ acCount = 0) =>
        /\ ringPop = Zeros(Len(ringBounds) - 1)
        /\ ringInvSq = Zeros(Len(ringBounds) - 1)
        /\ ringArea = Zeros(Len(ringBounds) - 1)
        /\ totalPop = 0
        /\ inverseSqSum = 0
        /\ inverseSqWeightSum = 0
        /\ pixelsProcessed = 0

\* The totals of a run of the travel-time filter are those of the cells of
\* this run and of its parameters alone.
TotalsOfThisRun ==
    ttPhase \in {"loop", "done"} =>
        LET kept == KeptPositions
            pop(k) == ttData[kept[k]].pop
            weight(k) == TimeWeight(EffectiveTime(ttData[kept[k]], ttMode), ttExponent)
        IN  /\ totalPopulation = SeqSum([k \in 1..Len(kept) |-> pop(k)])
            /\ weightSum = SeqSum([k \in 1..Len(kept) |-> weight(k)])
            /\ rawSum = SeqSum([k \in 1..Len(kept) |-> pop(k) * weight(k)])
            /\ Len(filteredCells) = Len(kept)
            /\ ttPhase = "done" =>
                  \A b \in 1..Len(TIME_BAND_RANGES) :
                     LET inBand == {k \in 1..Len(kept) :
                                       BandIndex(filteredCells[k].time) = b}
                     IN  /\ ttResults.timeBands[b].cellCount = Cardinality(inBand)
                         /\ ttResults.timeBands[b].population <= totalPopulation
                         /\ ttResults.timeBands[b].weightedContribution <= rawSum

\* C17: the totals and band values of a run depend on the samples and the
\* parameters of that run alone, also when other runs were made before it:
\* every run has its own accumulators, starting from zero.
C17_RunsShareNoState == FreshPass /\ TotalsOfThisRun

\* A run of the filter made after an earlier run has returned, with cells kept.
C17_Witness ==
    /\ ttPhase = "done"
    /\ ttRerun
    /\ Len(ttData) = MaxCells
    /\ Len(filteredCells) > 0

\* ---------------------------------------------------------------- C18
\* C18: the pop of the features buildSuperCells returns sum to the pop of its
\* input cells.
C18_PopulationPreserved ==
    /\ scPhase \in {"built", "rebuilt"} =>
          SeqSum([i \in 1..Len(scFeatures) |-> scFeatures[i].pop])
              = SeqSum([i \in 1..Len(scCells) |-> scCells[i].pop])
    /\ scPhase = "rebuilt" =>
          SeqSum([i \in 1..Len(scPermFeatures) |-> scPermFeatures[i].pop])
              = SeqSum([i \in 1..Len(scPermCells) |-> scPermCells[i].pop])

\* Two populated cells of one tile were merged into one feature.
C18_Witness ==
    /\ scPhase = "built"
    /\ Len(scCells) = 2
    /\ scCells[1].pop > 0 /\ scCells[2].pop > 0
    /\ Len(scFeatures) = 1
    /\ scFeatures[1].pop = scCells[1].pop + scCells[2].pop

Range(sq) == {sq[i] : i \in 1..Len(sq)}

LatestSettled ==
    /\ originId # "null"
    /\ ~effectPending
    /\ abortRef # 0
    /\ fetches[abortRef].origin = originId
    /\ fetches[abortRef].st \in {"ok", "failed"}

\* C20: once the fetch of the origin now selected has settled, the hook
\* exposes no data and no results of another origin; in particular a late
\* response to a superseded fetch never replaces them.
C20_OnlyLatestSurfaced ==
    LatestSettled =>
        /\ hkData \in {"null", originId}
        /\ hkResults \in {"null", originId}

\* ---------------------------------------------------------------- C21
\* Neither source can deliver the raster: no GEOTIFF_URL or one that does
\* not serve it, and no local file.
NoSourceUp(env) == env.url # "good" /\ ~env.file

\* C21: the latest openImage() loads from the remote URL whenever GEOTIFF_URL
\* is set, whether or not the local file is there, and from the local file
\* otherwise; when neither source can deliver the raster the open is never
\* fulfilled, it settles rejected and no getImage call returns its handle;
\* when GEOTIFF_URL is unset and the file is absent the error names both
\* remedies, the download and the setting of GEOTIFF_URL.
C21_SourceResolution ==
    (nOpens > 0) =>
        /\ openSource = (IF openEnv.url # "unset" THEN "url" ELSE "file")
        /\ NoSourceUp(openEnv) =>
              /\ openSt[nOpens] \in {"pending", "rejected"}
              /\ cachedImage # nOpens
              /\ \A i \in Callers : ~(ret[i] = "ok" /\ retVal[i] = nOpens)
              /\ \A i \in Callers :
                    (gpc[i] = "done" /\ waitOn[i] = nOpens) => ret[i] = "err"
        /\ (openSt[nOpens] = "rejected" /\ openEnv.url = "unset" /\ ~openEnv.file)
              => {"download", "set GEOTIFF_URL"} \subseteq openMessage
        /\ (openSt[nOpens] = "rejected") = (openMessage # {})

\* Nothing is configured: GEOTIFF_URL is unset and the file is absent. The
\* open went to the file, was rejected with the message naming both remedies,
\* and its caller received the error.
C21_Witness ==
    /\ nOpens > 0
    /\ openSt[nOpens] = "rejected"
    /\ openEnv = [url |-> "unset", file |-> FALSE]
    /\ openSource = "file"
    /\ openMessage = {"download", "set GEOTIFF_URL"}
    /\ \E i \in Callers : ret[i] = "err" /\ retVal[i] = nOpens

\* ---------------------------------------------------------------- C22
\* The list as the claim gives it: 0, 1, ..., 10, 12, ..., 24, 29, 32 (km).
ClaimedBoundaries32 ==
    [i \in 1..11 |-> 10 * (i - 1)] \o [i \in 1..7 |-> 100 + 20 * i]
        \o <<290, 320>>

\* The list the loop produces: 0, 1, ..., 10, 12, ..., 24, 26, 31, 32 (km).
Boundaries32 ==
    [i \in 1..11 |-> 10 * (i - 1)] \o [i \in 1..8 |-> 100 + 20 * i]
        \o <<310, 320>>

\* C22 as stated: generateRingBoundaries(32) returns exactly
\* [0, 1, ..., 9, 10, 12, ..., 24, 29, 32].
C22_ClaimedList ==
    (gbPhase = "done" /\ gbRadius = 320) => gbBoundaries = ClaimedBoundaries32

\* C22, amended: generateRingBoundaries(32) returns exactly
\* [0, 1, ..., 9, 10, 12, ..., 24, 26, 31, 32]: from 24, which is below 25,
\* the step is still 2; the steps of 5 start at 26, and the last step is cut
\* to 32.
C22_ExactList ==
    (gbPhase = "done" /\ gbRadius = 320) => gbBoundaries = Boundaries32

\* generateRingBoundaries(32) has returned.
C22_Witness ==
    /\ gbPhase = "done"
    /\ gbRadius = 320
    /\ Len(gbBoundaries) = 21

\* ---------------------------------------------------------------- C23
\* The step the claim gives for a boundary: 1 km below 10 km, 2 km in
\* [10, 25) km, 5 km from 25 km on.
ClaimedStep(b) == IF b < 100 THEN 10 ELSE IF b >= 100 /\ b < 250 THEN 20 ELSE 50

C23_State ==
    gbPhase \in {"loop", "done"} =>
        /\ \A i \in 2..Len(gbBoundaries) :
              gbBoundaries[i] =
                  Min(gbBoundaries[i - 1] + ClaimedStep(gbBoundaries[i - 1]), gbRadius)
        /\ \A i \in 1..Len(gbBoundaries) : gbBoundaries[i] <= gbRadius
        /\ \A i \in 1..Len(gbBoundaries) : \A j \in 1..Len(gbBoundaries) :
              gbBoundaries[i] = gbBoundaries[j] => i = j

\* The return: the list is left as the loop built it, or radiusKm is pushed
\* and the last boundary of the loop was not radiusKm.
C23_Step ==
    (gbPhase = "loop" /\ gbPhase' = "done") =>
        \/ gbBoundaries' = gbBoundaries
        \/ /\ gbBoundaries' = Append(gbBoundaries, gbRadius)
           /\ gbBoundaries[Len(gbBoundaries)] # gbRadius

\* C23: in the list of generateRingBoundaries(limit) every boundary after the
\* initial 0 is min(previous + step, limit), with step 1 below 10, 2 in
\* [10, 25) and 5 from 25 on; no boundary exceeds limit; no boundary occurs
\* twice, and the push after the loop happens only when the last boundary is
\* not limit.
C23_StepPolicy == []C23_State /\ [][C23_Step]_vars

\* A call with radiusKm = 27 km has returned: steps of 1, 2 and 5 were
\* taken, the step of 5 from 26 was cut to 27.
C23_Witness ==
    /\ gbPhase = "done"
    /\ gbRadius = 270
    /\ gbBoundaries[Len(gbBoundaries) - 1] = 260
    /\ gbBoundaries[Len(gbBoundaries)] = 270

\* ---------------------------------------------------------------- C24
\* The query of the claim has returned: centre cell 100, all other cells 0,
\* radiusKm = 2.
GridScenario ==
    /\ gdPhase = "done"
    /\ gdCenterPop = 100
    /\ gdOtherPop = 0
    /\ gdRadius = 20

\* C24 as stated: on the 5 x 5 grid with 100 in the centre cell and 0
\* elsewhere, radiusKm = 2, the result has totalPopulation = 100, raw gravity
\* sum 10000 and normalized gravity 100 (both in hundredths here).
C24_ClaimedTotals ==
    GridScenario =>
        /\ gdResult.totalPopulation = 100
        /\ gdResult.inverseSqSum = 100 * 10000
        /\ gdResult.inverseSqNormalized = 100 * 100

\* C24, amended: totalPopulation = 100 and the raw gravity sum is 10000, but
\* the weight mass is the sum of the weights of all 13 pixels within 2 km,
\* the twelve empty ones included: 100 + 4 * 1 + 4 * 1/2 + 4 * 1/4 = 107
\* km^-2, so the normalized gravity is 10000 / 107 = 93.46.
C24_GridTotals ==
    GridScenario =>
        /\ gdResult.totalPopulation = 100
        /\ gdResult.inverseSqSum = 100 * 10000
        /\ gdResult.pixelsProcessed = 13
        /\ gdWeightSum = 107 * (WeightScale \div 100)
        /\ gdResult.inverseSqNormalized = 9346

C24_Witness ==
    /\ GridScenario
    /\ gdRow = GridSize
    /\ gdResult.pixelsProcessed = 13
    /\ gdResult.rings[1].population = 100

\* ---------------------------------------------------------------- C25
\* The box has no point in common with the raster extent.
BoxOutside(box) ==
    \/ box.maxLng < OriginX
    \/ box.minLng > OriginX + RasterWidth * PixelUnits
    \/ box.maxLat < OriginY - RasterHeight * PixelUnits
    \/ box.minLat > OriginY

\* C25: when the bounding box of a computePopulation query lies entirely
\* outside the raster extent, the window has no pixel, the call does not
\* throw, and the result it returns has totalPopulation = 0 and an empty list
\* of rings.
C25_EmptyWindowResult ==
    (wnCaller = "computePopulation" /\ wnPhase # "idle" /\ BoxOutside(wnBox)) =>
        /\ EmptyWindow(wnWindow)
        /\ wnPhase # "failed"
        /\ wnPhase = "done" =>
              /\ wnResult.totalPopulation = 0
              /\ wnResult.rings = <<>>

\* ---------------------------------------------------------------- C26
\* The box and the raster extent overlap.
BoxIntersects(box) ==
    /\ box.maxLng > OriginX
    /\ box.minLng < OriginX + RasterWidth * PixelUnits
    /\ box.maxLat > OriginY - RasterHeight * PixelUnits
    /\ box.minLat < OriginY

\* The pixel in column c and row r overlaps the box: columns grow eastwards
\* from originX, rows grow southwards from originY.
PixelIntersects(c, r, box) ==
    /\ OriginX + c * PixelUnits < box.maxLng
    /\ OriginX + (c + 1) * PixelUnits > box.minLng
    /\ OriginY - (r + 1) * PixelUnits < box.maxLat
    /\ OriginY - r * PixelUnits > box.minLat

\* C26: for a bounding box that intersects the raster, the window computed
\* by computePopulation and by extractPopulatedCells lies within
\* [0, width - 1] x [0, height - 1], has col0 <= col1 and row0 <= row1, and
\* contains every raster pixel that intersects the box.
C26_WindowContainsBox ==
    (wnPhase # "idle" /\ BoxIntersects(wnBox)) =>
        /\ 0 <= wnWindow.col0 /\ wnWindow.col0 <= wnWindow.col1
        /\ wnWindow.col1 <= RasterWidth - 1
        /\ 0 <= wnWindow.row0 /\ wnWindow.row0 <= wnWindow.row1
        /\ wnWindow.row1 <= RasterHeight - 1
        /\ \A c \in 0..(RasterWidth - 1) : \A r \in 0..(RasterHeight - 1) :
              PixelIntersects(c, r, wnBox) =>
                  /\ wnWindow.col0 <= c /\ c <= wnWindow.col1
                  /\ wnWindow.row0 <= r /\ r <= wnWindow.row1

\* A box that sticks out of the raster at the top and on the right and ends
\* inside the top row of pixels: the window was cut to the raster at the top
\* and on the right, reaches one row further down, and was read.
C26_Witness ==
    /\ wnPhase = "pass"
    /\ BoxIntersects(wnBox)
    /\ wnBox.maxLat > OriginY
    /\ wnBox.maxLng > OriginX + RasterWidth * PixelUnits
    /\ wnBox.minLng > OriginX + PixelUnits
    /\ wnBox.minLat = OriginY - 1
    /\ wnWindow = [col0 |-> 1, row0 |-> 0, col1 |-> RasterWidth - 1, row1 |-> 1]

\* ---------------------------------------------------------------- C27
\* C27: for every ring of the result of computePopulation,
\* density = population / max(area, 1), area being the ring's accumulated
\* pixel area in km^2 (1 km^2 is 10 units): a ring of less than 1 km^2, an
\* empty ring included, is divided by 1.
C27_DensityOverMaxArea ==
    acPhase = "done" =>
        \A r \in 1..Len(acResult.rings) :
            acResult.rings[r].density = RoundDiv(10 * ringPop[r], Max(ringArea[r], 10))

\* ---------------------------------------------------------------- C28
\* useTravelTimeData has nothing left to wait for: the effect has run, and
\* either no origin is selected or the fetch of the selected origin settled.
HookAtRest ==
    /\ ~effectPending
    /\ \/ originId = "null"
       \/ /\ abortRef # 0
          /\ fetches[abortRef].origin = originId
          /\ fetches[abortRef].st \in {"ok", "failed"}

\* The same for usePopulation.
PopHookAtRest ==
    /\ ~upEffectPending
    /\ \/ upQuery = "null"
       \/ /\ upAbortRef # 0
          /\ upFetches[upAbortRef].origin = upQuery
          /\ upFetches[upAbortRef].st \in {"ok", "failed"}

\* C28: in usePopulation and in useTravelTimeData, once the latest request
\* has settled, or once the inputs have become null while a request was in
\* flight, loading eventually becomes false.
C28_LoadingEnds ==
    /\ HookAtRest ~> (hkLoading = FALSE)
    /\ PopHookAtRest ~> (upLoading = FALSE)

\* ---------------------------------------------------------------- C29
ComputeRequestsInFlight ==
    {r \in 1..Len(bcRuns) : bcRuns[r].req = "inflight"}

OriginsComputing == {o \in OriginIds : bcState.origins[o] = "computing"}

\* C29: in useBatchCompute, whatever the sequence of loadOrigins, start, pause
\* and retryErrors calls, at most one compute request is in flight and at most
\* one origin has status "computing".
C29_OneComputeAtATime ==
    /\ Cardinality(ComputeRequestsInFlight) <= 1
    /\ Cardinality(OriginsComputing) <= 1

\* ---------------------------------------------------------------- C30
\* pause() was called while run r was in its loop, and in this step run r
\* creates a controller, that is, issues a compute request.
IssuesAfterPause(r) ==
    /\ r <= Len(bcRuns)
    /\ bcRuns[r].paused
    /\ bcRuns'[r].ctl # bcRuns[r].ctl

\* The catch of the aborted request of run r runs in this step.
CatchesAbort(r) ==
    /\ r <= Len(bcRuns)
    /\ bcRuns[r].req = "aborted"
    /\ bcRuns'[r].pc = "ended"

C30_NoRequestAfterPause ==
    \A r \in 1..(MaxStarts + 1) : ~IssuesAfterPause(r)

C30_AbortedIsPending ==
    \A r \in 1..(MaxStarts + 1) :
        CatchesAbort(r) =>
            /\ bcState'.origins[bcRuns[r].origin] = "pending"
            /\ bcState'.errors = bcState.errors

PauseCalled == \E r \in 1..Len(bcRuns) : bcRuns[r].paused

\* C30: after pause() is called while a batch is running, that batch issues
\* no further compute request; an origin whose request was aborted returns to
\* "pending", is not marked "error" and does not count as an error; and the
\* status eventually leaves "running" with no origin left "computing".
C30_PauseStopsBatch ==
    /\ [][C30_NoRequestAfterPause /\ C30_AbortedIsPending]_vars
    /\ PauseCalled ~> (bcState.status # "running" /\ OriginsComputing = {})

============================================================================
